---- MODULE Spec2Model ----
(***************************************************************************)
(* TenantCollectionCloner (src/mongo/db/repl/tenant_collection_cloner.cpp) *)
(* as a state machine: one driver walking the five stages, and the         *)
(* database work task runner executing the scheduled insert tasks.         *)
(*                                                                         *)
(* Documents are identified by their _id, an integer in 1..MaxKey.         *)
(* An empty BSONObj / boost::none is the empty sequence << >>, a present   *)
(* value v is the one-element sequence <<v>>.                              *)
(***************************************************************************)
EXTENDS Integers, Sequences, FiniteSets, TLC

\* ---------------------------------------------------------------- bounds
MaxKey == 3          \* _id values are 1..MaxKey
MaxBatch == 2        \* largest number of documents in one cursor batch

Keys == 1..MaxKey

\* ------------------------------------------------------------ input sets
\* Errors a remote call of the DBClientConnection can raise.
RemoteErrors == {"NamespaceNotFound", "HostUnreachable"}

\* CollectionOptions::autoIndexId. The cloner only compares it with NO, so YES is
\* left out: it behaves as DEFAULT.
AutoIndexIdValues == {"DEFAULT", "NO"}

\* Replies of listIndexes on the donor (index names, in the order returned).
RemoteIndexLists ==
    { << >>, <<"_id_">>, <<"_id_", "a">>, <<"b", "_id_", "a">> }

\* Index names that may already exist on a local collection with the uuid.
LocalIndexSets == { {}, {"a"}, {"a", "c"} }

\* What the local catalog holds for the source's uuid / namespace before the run.
\*   none         no collection with the uuid, namespace free
\*   nsConflict   no collection with the uuid, namespace taken by another uuid
\*   sameUuid     collection with the uuid, same tenant and database
\*   otherTenant  collection with the uuid under another tenant
\*   otherDb      collection with the uuid, same tenant, another database
LocalKinds == {"none", "nsConflict", "sameUuid", "otherTenant", "otherDb"}

\* The fail points of the cloner (MONGO_FAIL_POINT_DEFINE).
FailPointNames ==
    { "tenantCollectionClonerHangAfterGettingOperationTime",
      "tenantCollectionClonerHangAfterCreateCollection",
      "tenantMigrationHangCollectionClonerAfterHandlingBatchResponse" }

\* Namespaces a local collection with the uuid of the source can have: the namespace
\* of the source, or another one of the same database (the collection was renamed).
LocalNamespaces == {"sourceNss", "renamedNss"}

VARIABLES
    \* ---- environment
    donorDocs,        \* set of _ids in the donor collection
    autoIndexId,      \* _collectionOptions.autoIndexId
    isResuming,       \* getSharedData()->isResuming()
    localColl,        \* local catalog entry, see LocalKinds (plus "created")
    localNss,         \* namespace of the local collection with the uuid of the source
    localIndexes,     \* names of the indexes of the local collection
    destDocs,         \* documents of the destination collection, in insertion order
    failPoints,       \* the fail points that are enabled for this collection
    \* ---- driver
    pc,               \* position of the driver
    stageIdx,         \* index into getStages() of the current stage
    behavior,         \* AfterStageBehavior returned by the current stage
    thrown,           \* exception in flight, << >> when none
    status,           \* sync status: "OK" or the first error set by setSyncFailedStatus
    runResult,        \* << >> while running, <<status>> once run() returned
    clock,            \* getSharedData()->getClock()->now()
    \* ---- cloner members
    stats,            \* _stats
    wasEmpty,         \* _donorCollectionWasEmptyBeforeListIndexes
    operationTime,    \* _operationTime (0 is Timestamp())
    readyIndexSpecs,  \* _readyIndexSpecs
    idIndexSpec,      \* _idIndexSpec
    existingNss,      \* _existingNss
    lastDocId,        \* _lastDocId
    documentsToInsert,\* _documentsToInsert
    cursor,           \* documents the remote cursor has still to deliver
    \* ---- _dbWorkTaskRunner
    taskQueue,        \* number of scheduled insert tasks not yet started
    worker,           \* << >> when no task runs, <<docs>> while a task is in performInserts
    \* ---- history
    startedStages,    \* names of the stages started, in order
    stageResults,     \* "kContinueNormally" / "kSkipRemainingStages" / "threw", per stage
    stageErrors,      \* errors raised by stage bodies, in order
    queryLog,         \* result sets of the remote document queries issued
    received,         \* all documents received from the cursor, in order
    batchLog,         \* the batches received, in order
    insertCalls,      \* document vectors handed to performInserts, in order
    scheduled,        \* number of insert tasks ever scheduled
    failedInserts,    \* number of insert tasks whose write failed
    indexBuildCalls,  \* arguments of createIndexesOnEmptyCollection calls
    createCalls,      \* number of createCollection calls to local storage
    preExisting,      \* destination documents found by createCollectionStage
    listedIndexes,    \* replies of the remote listIndexes that were majority-committed
    remoteCount,      \* replies of the remote count command
    destAtStart,      \* the destination documents before the run
    localCollAtStart, \* the local catalog entry before the run
    majorityWait,     \* << >>, or <<status>> of the majority wait of listIndexesStage
    storageCalls,     \* the calls that write to local storage, with their namespace, in order
    localIndexesAtStart, \* the local collection's index names before the run
    anchorBehind,     \* runQuery returned while the destination's largest _id was below the received one
    copiedAtThrow,    \* documentsCopied when the current stage raised
    \* ---- synchronisation
    mutex,            \* _mutex: "free" or the context that holds it
    blockEntry,       \* per context: << >>, or <<mark>> taken when it entered a lock_guard scope
    \* ---- constructor
    ctorArgs,         \* the arguments the constructor was called with
    \* ---- stats report
    snapshot,         \* a Stats value, as returned by getStats()
    report,           \* the fields Stats::append put into the builder, in order
    \* ---- ShardingCatalogClientImpl::insertConfigDocument
    icdPc,            \* position of the caller of insertConfigDocument
    doc,              \* the document to insert
    retry,            \* the loop variable
    insertStatus,     \* "status": the status of the current write attempt
    icdResult,        \* << >>, or <<status>> once insertConfigDocument returned
    configColl,       \* the config collection's documents with the _id of doc
    writeAttempts,    \* history: the status of every runBatchWriteCommand call, in order
    fetchLog,         \* history: the results of the _exhaustiveFindOnConfig calls, in order
    \* ---- ShardingCatalogClientImpl::insertConfigDocumentsAsRetryableWrite
    rwPc,             \* position of the caller of insertConfigDocumentsAsRetryableWrite
    docsVector,       \* "docs": the documents not yet taken from the input vector
    workingBatch,
    workingBatchItemSize,
    workingBatchDocSize,
    currentTxnNumber,
    sentBatches,      \* history: the batches handed to sendRetryableWriteBatchRequestToConfig
    rwInput           \* history: the input vector

envVars == <<donorDocs, autoIndexId, isResuming, localColl, localNss, localIndexes, destDocs,
            failPoints>>
driverVars == <<pc, stageIdx, behavior, thrown, status, runResult, clock>>
clonerVars == <<stats, wasEmpty, operationTime, readyIndexSpecs, idIndexSpec,
                existingNss, lastDocId, documentsToInsert, cursor>>
runnerVars == <<taskQueue, worker>>
histVars == <<startedStages, stageResults, stageErrors, queryLog, received, batchLog,
              insertCalls, scheduled, failedInserts, indexBuildCalls, createCalls,
              preExisting, listedIndexes, remoteCount, destAtStart, storageCalls, localCollAtStart, majorityWait, localIndexesAtStart, anchorBehind, copiedAtThrow>>
syncVars == <<mutex, blockEntry>>
reportVars == <<snapshot, report>>
icdVars == <<icdPc, doc, retry, insertStatus, icdResult, configColl, writeAttempts,
             fetchLog>>
rwVars == <<rwPc, docsVector, workingBatch, workingBatchItemSize, workingBatchDocSize,
            currentTxnNumber, sentBatches, rwInput>>
auxVars == <<reportVars, icdVars, rwVars>>
vars == <<envVars, driverVars, clonerVars, runnerVars, histVars, syncVars, ctorArgs, auxVars>>

\* --------------------------------------------------------------- helpers
RECURSIVE SortedSeq(_)
\* The elements of a finite set of integers in ascending order.
SortedSeq(S) ==
    IF S = {} THEN << >>
    ELSE LET m == CHOOSE x \in S : \A y \in S : x <= y
         IN <<m>> \o SortedSeq(S \ {m})

\* The elements of a sequence.
Range(s) == { s[i] : i \in 1..Len(s) }

RECURSIVE Flatten(_)
\* Concatenation of a sequence of sequences.
Flatten(ss) == IF ss = << >> THEN << >> ELSE Head(ss) \o Flatten(Tail(ss))

\* The first n elements of s.
Prefix(s, n) == SubSeq(s, 1, n)

\* Largest element of a non-empty set of integers.
MaxOf(S) == CHOOSE x \in S : \A y \in S : y <= x


Min(a, b) == IF a <= b THEN a ELSE b

\* ------------------------------------------------------------------ Init
\* The contexts that take _mutex: the thread in run(), the thread of the task runner,
\* and a thread calling getStats().
Contexts == {"driver", "worker", "getStats"}

\* The members of the cloner after the initializer list of the constructor, and the
\* bookkeeping of the model before run().
InitMembers ==
    /\ mutex = "free"
    /\ blockEntry = [c \in Contexts |-> << >>]
    /\ stageIdx = 1
    /\ behavior = "kContinueNormally"
    /\ thrown = << >>
    /\ status = "OK"
    /\ runResult = << >>
    /\ clock = 1
    /\ stats = [documentToCopy |-> 0, documentsCopied |-> 0, indexes |-> 0,
                insertedBatches |-> 0, receivedBatches |-> 0, start |-> 0, end |-> 0]
    /\ wasEmpty = FALSE
    /\ operationTime = 0
    /\ readyIndexSpecs = << >>
    /\ idIndexSpec = << >>
    /\ existingNss = << >>
    /\ lastDocId = << >>
    /\ documentsToInsert = << >>
    /\ cursor = << >>
    /\ taskQueue = 0
    /\ worker = << >>
    /\ startedStages = << >>
    /\ stageResults = << >>
    /\ stageErrors = << >>
    /\ queryLog = << >>
    /\ received = << >>
    /\ batchLog = << >>
    /\ insertCalls = << >>
    /\ scheduled = 0
    /\ failedInserts = 0
    /\ indexBuildCalls = << >>
    /\ createCalls = 0
    /\ preExisting = << >>
    /\ listedIndexes = << >>
    /\ remoteCount = << >>
    /\ destAtStart = destDocs
    /\ localCollAtStart = localColl
    /\ majorityWait = << >>
    /\ storageCalls = << >>
    /\ localIndexesAtStart = localIndexes
    /\ anchorBehind = FALSE
    /\ copiedAtThrow = 0

\* Constructor arguments that pass the three invariants of the constructor.
ValidCtorArgs == [nssValid |-> TRUE, nssForTenant |-> TRUE, hasUuid |-> TRUE]

\* The Stats value of a report before getStats() was called: the counters of a new
\* cloner, and nothing appended.
NoReport ==
    /\ snapshot = [documentToCopy |-> 0, documentsCopied |-> 0, indexes |-> 0,
                   insertedBatches |-> 0, receivedBatches |-> 0, start |-> 0, end |-> 0]
    /\ report = << >>

\* A Status: its code, and whether withContext() added a context to its reason.
StatusOf(c) == [code |-> c, context |-> FALSE]

\* insertConfigDocument was not called.
InsertConfigDocumentIdle ==
    /\ icdPc = "idle"
    /\ doc = "a"
    /\ retry = 1
    /\ insertStatus = StatusOf("OK")
    /\ icdResult = << >>
    /\ configColl = << >>
    /\ writeAttempts = << >>
    /\ fetchLog = << >>

\* insertConfigDocumentsAsRetryableWrite was not called.
RetryableWriteIdle ==
    /\ rwPc = "idle"
    /\ docsVector = << >>
    /\ workingBatch = << >>
    /\ workingBatchItemSize = 0
    /\ workingBatchDocSize = 0
    /\ currentTxnNumber = 0
    /\ sentBatches = << >>
    /\ rwInput = << >>

\* The components besides the cloner, when only the cloner is exercised.
OtherComponentsIdle == NoReport /\ InsertConfigDocumentIdle /\ RetryableWriteIdle

\* The cloner after its constructor, the driver before run().
InitCloner ==
    /\ pc = "pre"
    /\ OtherComponentsIdle
    /\ ctorArgs = ValidCtorArgs
    /\ InitMembers

\* The state before run(): the donor, the local catalog, no fail point enabled.
Init ==
    /\ donorDocs \in SUBSET Keys
    /\ autoIndexId \in AutoIndexIdValues
    /\ localColl \in LocalKinds
    /\ localNss = "renamedNss"
    /\ isResuming \in (IF localColl \in {"sameUuid", "otherTenant", "otherDb"}
                       THEN BOOLEAN ELSE {FALSE})
    /\ localIndexes \in (IF localColl = "sameUuid" THEN LocalIndexSets ELSE { {} })
    /\ destDocs \in (IF localColl = "sameUuid"
                     THEN { SortedSeq(1..k) : k \in 0..MaxKey }
                     ELSE { << >> })
    /\ failPoints = {}
    /\ InitCloner

\* ------------------------------------------------------- stage plumbing
\* Mutant: the emptiness check is listed after listIndexes.
getStagesReordered ==
    <<"count", "listIndexes", "checkIfDonorCollectionIsEmpty", "createCollection", "query">>

\* TenantCollectionCloner::getStages
getStages ==
    <<"count", "checkIfDonorCollectionIsEmpty", "listIndexes", "createCollection", "query">>

\* BaseCloner::mustExit: the sync status is no longer OK.
mustExit == status # "OK"

\* The driver enters the stage function of the named stage; the stage loop does not
\* start a stage once the cloner must exit.
Begin(name) ==
    /\ pc = "stage"
    /\ ~mustExit
    /\ getStages[stageIdx] = name
    /\ startedStages' = Append(startedStages, name)

\* The stage function returns an AfterStageBehavior.
Returns(b) ==
    /\ pc' = "returned"
    /\ behavior' = b
    /\ UNCHANGED <<thrown, stageErrors, copiedAtThrow>>

\* The stage function raises a DBException with code e.
Throws(e) ==
    /\ pc' = "threw"
    /\ thrown' = <<e>>
    /\ stageErrors' = Append(stageErrors, e)
    /\ copiedAtThrow' = stats'.documentsCopied
    /\ UNCHANGED behavior

\* BaseCloner::setSyncFailedStatus: the first error is kept.
setSyncFailedStatus(e) == IF status = "OK" THEN e ELSE status

\* Mutant: the join is missing, the call returns at once.
waitForDatabaseWorkToCompleteNoJoin == TRUE

\* TenantCollectionCloner::waitForDatabaseWorkToComplete: _dbWorkTaskRunner.join()
\* returns once no task is queued and none is running.
waitForDatabaseWorkToComplete == taskQueue = 0 /\ worker = << >>

\* TenantCollectionCloner::preStage
preStage ==
    /\ pc = "pre"
    /\ stats' = [stats EXCEPT !.start = clock]
    /\ clock' = clock + 1
    /\ pc' = "stage"
    /\ UNCHANGED <<envVars, stageIdx, behavior, thrown, status, runResult,
                   wasEmpty, operationTime, readyIndexSpecs, idIndexSpec, existingNss,
                   lastDocId, documentsToInsert, cursor, runnerVars, histVars, syncVars, ctorArgs, auxVars>>

\* Mutant: the post hook writes the start time.
postStageSetsStart ==
    /\ pc = "post"
    /\ stats' = [stats EXCEPT !.start = clock]
    /\ clock' = clock + 1
    /\ pc' = "finish"
    /\ UNCHANGED <<envVars, stageIdx, behavior, thrown, status, runResult,
                   wasEmpty, operationTime, readyIndexSpecs, idIndexSpec, existingNss,
                   lastDocId, documentsToInsert, cursor, runnerVars, histVars, syncVars, ctorArgs, auxVars>>

\* TenantCollectionCloner::postStage
postStage ==
    /\ pc = "post"
    /\ stats' = [stats EXCEPT !.end = clock]
    /\ clock' = clock + 1
    /\ pc' = "finish"
    /\ UNCHANGED <<envVars, stageIdx, behavior, thrown, status, runResult,
                   wasEmpty, operationTime, readyIndexSpecs, idIndexSpec, existingNss,
                   lastDocId, documentsToInsert, cursor, runnerVars, histVars, syncVars, ctorArgs, auxVars>>

\* BaseCloner::run returns the sync status.
runReturns ==
    /\ pc = "finish"
    /\ runResult' = <<status>>
    /\ pc' = "done"
    /\ UNCHANGED <<envVars, stageIdx, behavior, thrown, status, clock,
                   clonerVars, runnerVars, histVars, syncVars, ctorArgs, auxVars>>

\* BaseCloner::runStages after a stage returned: go on with the next stage on
\* kContinueNormally, leave the loop on kSkipRemainingStages or after the last stage.
runStagesNext ==
    /\ pc = "returned"
    /\ stageResults' = Append(stageResults, behavior)
    /\ IF behavior = "kContinueNormally" /\ stageIdx < Len(getStages)
       THEN stageIdx' = stageIdx + 1 /\ pc' = "stage"
       ELSE stageIdx' = stageIdx /\ pc' = "post"
    /\ UNCHANGED <<envVars, behavior, thrown, status, runResult, clock,
                   clonerVars, runnerVars,
                   startedStages, stageErrors, queryLog, received, batchLog, insertCalls,
                   scheduled, failedInserts, indexBuildCalls, createCalls, preExisting,
                   listedIndexes, remoteCount, destAtStart, storageCalls, localCollAtStart, syncVars, ctorArgs, auxVars, majorityWait, localIndexesAtStart, anchorBehind, copiedAtThrow>>

\* BaseCloner::run catching the exception that left the stage wrapper.
runCatch ==
    /\ pc = "rethrown"
    /\ stageResults' = Append(stageResults, "threw")
    /\ status' = setSyncFailedStatus(thrown[1])
    /\ thrown' = << >>
    /\ pc' = "post"
    /\ UNCHANGED <<envVars, stageIdx, behavior, runResult, clock,
                   clonerVars, runnerVars,
                   startedStages, stageErrors, queryLog, received, batchLog, insertCalls,
                   scheduled, failedInserts, indexBuildCalls, createCalls, preExisting,
                   listedIndexes, remoteCount, destAtStart, storageCalls, localCollAtStart, syncVars, ctorArgs, auxVars, majorityWait, localIndexesAtStart, anchorBehind, copiedAtThrow>>

\* Mutant: the NamespaceNotFound handler returns without draining the inserts.
catchNamespaceNotFoundNoDrain ==
    /\ pc = "threw"
    /\ thrown = <<"NamespaceNotFound">>
    /\ pc' = "returned"
    /\ behavior' = "kSkipRemainingStages"
    /\ thrown' = << >>
    /\ UNCHANGED <<envVars, stageIdx, status, runResult, clock,
                   clonerVars, runnerVars, histVars, syncVars, ctorArgs, auxVars>>

\* TenantCollectionClonerStage::run, catch of NamespaceNotFound
catchNamespaceNotFound ==
    /\ pc = "threw"
    /\ thrown = <<"NamespaceNotFound">>
    /\ waitForDatabaseWorkToComplete
    /\ pc' = "returned"
    /\ behavior' = "kSkipRemainingStages"
    /\ thrown' = << >>
    /\ UNCHANGED <<envVars, stageIdx, status, runResult, clock,
                   clonerVars, runnerVars, histVars, syncVars, ctorArgs, auxVars>>

\* Mutant: the DBException handler rethrows without draining the inserts.
catchDBExceptionNoDrain ==
    /\ pc = "threw"
    /\ thrown # <<"NamespaceNotFound">>
    /\ pc' = "rethrown"
    /\ UNCHANGED <<envVars, stageIdx, behavior, thrown, status, runResult, clock,
                   clonerVars, runnerVars, histVars, syncVars, ctorArgs, auxVars>>

\* TenantCollectionClonerStage::run, catch of any other DBException
catchDBException ==
    /\ pc = "threw"
    /\ thrown # <<"NamespaceNotFound">>
    /\ waitForDatabaseWorkToComplete
    /\ pc' = "rethrown"
    /\ UNCHANGED <<envVars, stageIdx, behavior, thrown, status, runResult, clock,
                   clonerVars, runnerVars, histVars, syncVars, ctorArgs, auxVars>>

\* TenantCollectionCloner::TenantCollectionClonerStage::run
TenantCollectionClonerStage_run == catchNamespaceNotFound \/ catchDBException


\* ---------------------------------------------------------------- stages
\* Replies of the remote count command: the collection's count, or a negative
\* value as reported after an unclean shutdown of the donor.
RemoteCounts == { -1, Cardinality(donorDocs) }

\* Mutant: the negative count is stored as it is.
clampCountMissing(count) == count

\* countStage: "if (count < 0) count = 0"
clampCount(count) == IF count < 0 THEN 0 ELSE count

\* TenantCollectionCloner::countStage
countStage ==
    /\ Begin("count")
    /\ \/ \E e \in RemoteErrors :
            /\ stats' = stats
            /\ remoteCount' = remoteCount
            /\ Throws(e)
       \/ \E count \in RemoteCounts :
            /\ remoteCount' = Append(remoteCount, count)
            /\ stats' = [stats EXCEPT !.documentToCopy = clampCount(count)]
            /\ Returns("kContinueNormally")
    /\ UNCHANGED <<envVars, stageIdx, status, runResult, clock,
                   wasEmpty, operationTime, readyIndexSpecs, idIndexSpec, existingNss,
                   lastDocId, documentsToInsert, cursor, runnerVars,
                   stageResults, queryLog, received, batchLog, insertCalls, scheduled,
                   failedInserts, indexBuildCalls, createCalls, preExisting, listedIndexes, destAtStart, storageCalls, localCollAtStart, syncVars, ctorArgs, auxVars, majorityWait, localIndexesAtStart, anchorBehind>>

\* checkIfDonorCollectionIsEmptyStage: "!cursor->more()" of the limit-1 query
donorIsEmpty(docs) == docs = {}

\* TenantCollectionCloner::checkIfDonorCollectionIsEmptyStage
checkIfDonorCollectionIsEmptyStage ==
    /\ Begin("checkIfDonorCollectionIsEmpty")
    /\ stats' = stats
    /\ \/ \E e \in RemoteErrors :
            /\ wasEmpty' = wasEmpty
            /\ Throws(e)
       \/ /\ wasEmpty' = donorIsEmpty(donorDocs)
          /\ Returns("kContinueNormally")
    /\ UNCHANGED <<envVars, stageIdx, status, runResult, clock,
                   operationTime, readyIndexSpecs, idIndexSpec, existingNss,
                   lastDocId, documentsToInsert, cursor, runnerVars,
                   stageResults, queryLog, received, batchLog, insertCalls, scheduled,
                   failedInserts, indexBuildCalls, createCalls, preExisting, listedIndexes, remoteCount, destAtStart, storageCalls, localCollAtStart, syncVars, ctorArgs, auxVars, majorityWait, localIndexesAtStart, anchorBehind>>

RECURSIVE SelectNames(_, _)
\* The names of a list of index specs that are in the set keep, order preserved.
SelectNames(specs, keep) ==
    IF specs = << >> THEN << >>
    ELSE (IF Head(specs) \in keep THEN <<Head(specs)>> ELSE << >>)
         \o SelectNames(Tail(specs), keep)

\* listIndexesStage: the loop splitting the specs into _idIndexSpec and _readyIndexSpecs.
\* _idIndexSpec is overwritten by each spec named "_id_".
splitIdIndex(specs) ==
    IF "_id_" \in Range(specs) THEN <<"_id_">> ELSE << >>

\* Mutant: every spec is pushed to _readyIndexSpecs, the "_id_" one included.
splitReadyIndexesAll(ready, specs) == ready \o specs

\* listIndexesStage: specs not named "_id_" are pushed to _readyIndexSpecs.
splitReadyIndexes(ready, specs) ==
    ready \o SelectNames(specs, Range(specs) \ {"_id_"})

\* Mutant: the option is compared the wrong way round.
idIndexCheckInverted(idSpec, autoId) == idSpec # << >> \/ autoId # "NO"

\* listIndexesStage: the condition of the uassert on the '_id' index spec.
idIndexCheck(idSpec, autoId) == idSpec # << >> \/ autoId = "NO"

\* Mutant: the loop on the fail point does not look at mustExit.
hangAfterGettingOperationTimeIgnoresExit ==
    "tenantCollectionClonerHangAfterGettingOperationTime" \in failPoints

\* listIndexesStage: the condition of the loop on the fail point
\* tenantCollectionClonerHangAfterGettingOperationTime.
hangAfterGettingOperationTimeWaits ==
    /\ "tenantCollectionClonerHangAfterGettingOperationTime" \in failPoints
    /\ ~mustExit

\* Mutant: the '_id' index is not counted.
countIndexesReadyOnly(ready, idSpec) == Len(ready)

\* listIndexesStage: "_readyIndexSpecs.size() + (_idIndexSpec.isEmpty() ? 0 : 1)"
countIndexes(ready, idSpec) == Len(ready) + (IF idSpec = << >> THEN 0 ELSE 1)

\* Outcomes of the majority wait: the command raises or replies with an error, or
\* replies OK.
MajorityWaitReplies == RemoteErrors \cup {"MajorityWaitFailed", "OK"}

\* Mutant: the reply of the majority wait is not looked at.
majorityWaitUnchecked(reply) == TRUE

\* listIndexesStage: uassertStatusOKWithContext(getStatusFromCommandResult(readResult))
majorityWaitOK(reply) == reply = "OK"

\* listIndexesStage from the majority wait on.
listIndexesAfterOperationTime ==
    /\ operationTime' = 1
    /\ \E reply \in MajorityWaitReplies :
         /\ majorityWait' = <<reply>>
         /\ IF ~majorityWaitOK(reply)
            THEN /\ UNCHANGED <<stats, readyIndexSpecs, idIndexSpec, listedIndexes>>
                 /\ Throws(reply)
            ELSE \E specs \in RemoteIndexLists :
                 /\ listedIndexes' = Append(listedIndexes, specs)
                 /\ idIndexSpec' = splitIdIndex(specs)
                 /\ readyIndexSpecs' = splitReadyIndexes(readyIndexSpecs, specs)
                 /\ stats' = [stats EXCEPT !.indexes =
                                 countIndexes(readyIndexSpecs', idIndexSpec')]
                 /\ IF idIndexCheck(idIndexSpec', autoIndexId)
                    THEN Returns("kContinueNormally")
                    ELSE Throws("IllegalOperation")

\* TenantCollectionCloner::listIndexesStage
listIndexesStage ==
    /\ Begin("listIndexes")
    /\ \/ \* getIndexSpecs raises
          \E e \in RemoteErrors :
            /\ operationTime' = 0
            /\ UNCHANGED <<stats, readyIndexSpecs, idIndexSpec, listedIndexes, majorityWait>>
            /\ Throws(e)
       \/ IF hangAfterGettingOperationTimeWaits
          THEN \* the stage enters the loop on the fail point
               /\ operationTime' = 1
               /\ pc' = "hangAfterGettingOperationTime"
               /\ UNCHANGED <<stats, readyIndexSpecs, idIndexSpec, listedIndexes,
                              majorityWait, behavior, thrown, stageErrors, copiedAtThrow>>
          ELSE listIndexesAfterOperationTime
    /\ UNCHANGED <<envVars, stageIdx, status, runResult, clock,
                   wasEmpty, existingNss,
                   lastDocId, documentsToInsert, cursor, runnerVars,
                   stageResults, queryLog, received, batchLog, insertCalls, scheduled,
                   failedInserts, indexBuildCalls, createCalls, preExisting,
                   remoteCount, destAtStart, storageCalls, localCollAtStart, syncVars, ctorArgs, auxVars,
                   localIndexesAtStart, anchorBehind>>

\* listIndexesStage, one turn of the loop on the fail point: sleepsecs(1).
hangAfterGettingOperationTimeSleeps ==
    /\ pc = "hangAfterGettingOperationTime"
    /\ hangAfterGettingOperationTimeWaits
    /\ UNCHANGED vars

\* listIndexesStage leaves the loop on the fail point and goes on.
hangAfterGettingOperationTimeEnds ==
    /\ pc = "hangAfterGettingOperationTime"
    /\ ~hangAfterGettingOperationTimeWaits
    /\ listIndexesAfterOperationTime
    /\ UNCHANGED <<envVars, stageIdx, status, runResult, clock,
                   wasEmpty, existingNss,
                   lastDocId, documentsToInsert, cursor, runnerVars,
                   startedStages,
                   stageResults, queryLog, received, batchLog, insertCalls, scheduled,
                   failedInserts, indexBuildCalls, createCalls, preExisting,
                   remoteCount, destAtStart, storageCalls, localCollAtStart, syncVars, ctorArgs, auxVars,
                   localIndexesAtStart, anchorBehind>>

\* Mutant: the sort is ascending, the first document is taken for the last.
findLastDocIdAscending(docs) == IF docs = << >> THEN << >> ELSE <<docs[1]>>

\* createCollectionStage: client.findOne(ns, Query().sort({_id: -1}), {_id: 1})
findLastDocId(docs) == IF docs = << >> THEN << >> ELSE <<MaxOf(Range(docs))>>

\* Mutant: nothing is erased from the list.
eraseExistingNothing(ready, existingNames) == ready

\* createCollectionStage: the loop erasing from _readyIndexSpecs the names that exist locally.
eraseExisting(ready, existingNames) == SelectNames(ready, Range(ready) \ existingNames)

\* Mutant: the indexes are built although documents were found.
skipCreateIndexesNever(lastDoc) == FALSE

\* createCollectionStage: skipCreateIndexes is set when findOne returned a document.
skipCreateIndexes(lastDoc) == lastDoc # << >>

\* Mutant: the documents found in the destination are not counted.
resumedDocumentsCopiedDropped(copied, count) == copied

\* createCollectionStage: "_stats.documentsCopied += count" of the resume branch.
resumedDocumentsCopied(copied, count) == copied + count

\* createCollectionStage: tenantCollectionClonerHangAfterCreateCollection.pauseWhileSet()
\* waits as long as the fail point is enabled; it does not look at mustExit.
hangAfterCreateCollectionWaits ==
    "tenantCollectionClonerHangAfterCreateCollection" \in failPoints

\* createCollectionStage: the end of the stage, pauseWhileSet() and the return.
ReturnsAfterPause ==
    IF hangAfterCreateCollectionWaits
    THEN /\ pc' = "hangAfterCreateCollection"
         /\ UNCHANGED <<behavior, thrown, stageErrors, copiedAtThrow>>
    ELSE Returns("kContinueNormally")

\* Mutant: the source namespace is always the target.
destinationNssSource(existing) == "sourceNss"

\* "_existingNss.value_or(_sourceNss)": the namespace index builds and inserts target.
\* "sourceNss" stands for _sourceNss, the recorded value is collection->ns().
destinationNss(existing) == IF existing = << >> THEN "sourceNss" ELSE existing[1]

\* Mutant: a collection found by uuid is taken as it is.
existingCollectionUnchecked(kind, resuming) == "OK"

\* createCollectionStage: the three uasserts on the collection found by uuid, in the
\* order of the code: it belongs to the tenant (5342500), it is in the database of the
\* source (5342501), and the migration is resuming (NamespaceExists).
existingCollectionCheck(kind, resuming) ==
    IF kind = "otherTenant" THEN "Location5342500"
    ELSE IF kind = "otherDb" THEN "Location5342501"
    ELSE IF ~resuming THEN "NamespaceExists"
    ELSE "OK"

\* createCollectionStage, branch "collection with the uuid exists"
createCollectionExisting ==
    /\ localColl \in {"sameUuid", "otherTenant", "otherDb"}
    /\ UNCHANGED <<localColl, createCalls>>
    /\ IF existingCollectionCheck(localColl, isResuming) # "OK" THEN
            /\ UNCHANGED <<stats, existingNss, lastDocId, readyIndexSpecs, localIndexes,
                           indexBuildCalls, preExisting, storageCalls>>
            /\ Throws(existingCollectionCheck(localColl, isResuming))
       ELSE
            /\ existingNss' = <<localNss>>
            /\ lastDocId' = findLastDocId(destDocs)
            /\ preExisting' = destDocs
            /\ IF lastDocId' # << >> THEN
                    \* not empty: skip creating indexes, resume from the last document
                    /\ readyIndexSpecs' = << >>
                    /\ stats' = [stats EXCEPT !.documentsCopied =
                                    resumedDocumentsCopied(@, Len(destDocs))]
               ELSE
                    /\ readyIndexSpecs' = eraseExisting(readyIndexSpecs, localIndexes)
                    /\ stats' = stats
            /\ IF skipCreateIndexes(lastDocId') THEN
                    /\ UNCHANGED <<localIndexes, indexBuildCalls, storageCalls>>
                    /\ ReturnsAfterPause
               ELSE
                    /\ indexBuildCalls' = Append(indexBuildCalls, readyIndexSpecs')
                    /\ storageCalls' = Append(storageCalls,
                            [op |-> "createIndexes", nss |-> destinationNss(existingNss')])
                    /\ \/ /\ localIndexes' = localIndexes \cup Range(readyIndexSpecs')
                          /\ ReturnsAfterPause
                       \/ /\ localIndexes' = localIndexes
                          /\ Throws("CreateIndexesFailed")

\* Mutant: the creation succeeds although the namespace is taken.
createCollectionAlwaysOK(kind) == "OK"

\* createCollectionStage: the status of getStorageInterface()->createCollection on
\* _sourceNss. It is NamespaceExists when a collection with the same namespace but a
\* different UUID exists.
createCollectionStatus(kind) == IF kind = "nsConflict" THEN "NamespaceExists" ELSE "OK"

\* createCollectionStage, branch "no collection with the same UUID exists"
createCollectionNew ==
    /\ localColl \in {"none", "nsConflict"}
    /\ UNCHANGED <<stats, existingNss, lastDocId, readyIndexSpecs, preExisting>>
    /\ createCalls' = createCalls + 1
    /\ LET created == [op |-> "createCollection", nss |-> "sourceNss",
                       options |-> autoIndexId]
       IN IF createCollectionStatus(localColl) # "OK" THEN
               /\ storageCalls' = Append(storageCalls, created)
               /\ UNCHANGED <<localColl, localIndexes, indexBuildCalls>>
               /\ Throws(createCollectionStatus(localColl))
          ELSE
               /\ localColl' = "created"
               /\ indexBuildCalls' = Append(indexBuildCalls, readyIndexSpecs)
               /\ storageCalls' = storageCalls \o
                       << created,
                          [op |-> "createIndexes", nss |-> destinationNss(existingNss)] >>
               /\ \/ /\ localIndexes' = (IF autoIndexId = "NO" THEN {} ELSE {"_id_"})
                                           \cup Range(readyIndexSpecs)
                     /\ ReturnsAfterPause
                  \/ /\ localIndexes' = (IF autoIndexId = "NO" THEN {} ELSE {"_id_"})
                     /\ Throws("CreateIndexesFailed")

\* TenantCollectionCloner::createCollectionStage
createCollectionStage ==
    /\ Begin("createCollection")
    /\ (createCollectionExisting \/ createCollectionNew)
    /\ UNCHANGED <<donorDocs, autoIndexId, isResuming, localNss, destDocs, failPoints,
                   stageIdx, status, runResult, clock,
                   wasEmpty, operationTime, idIndexSpec, documentsToInsert, cursor,
                   runnerVars,
                   stageResults, queryLog, received, batchLog, insertCalls, scheduled,
                   failedInserts, listedIndexes, remoteCount, destAtStart,
                   localCollAtStart, syncVars, ctorArgs, auxVars, majorityWait, localIndexesAtStart, anchorBehind>>


\* createCollectionStage, pauseWhileSet(): the thread stays blocked.
hangAfterCreateCollectionSleeps ==
    /\ pc = "hangAfterCreateCollection"
    /\ hangAfterCreateCollectionWaits
    /\ UNCHANGED vars

\* createCollectionStage, pauseWhileSet() returns and the stage returns.
hangAfterCreateCollectionEnds ==
    /\ pc = "hangAfterCreateCollection"
    /\ ~hangAfterCreateCollectionWaits
    /\ Returns("kContinueNormally")
    /\ UNCHANGED <<envVars, stageIdx, status, runResult, clock,
                   clonerVars, runnerVars,
                   startedStages, stageResults, queryLog, received, batchLog, insertCalls,
                   scheduled, failedInserts, indexBuildCalls, createCalls, preExisting,
                   listedIndexes, remoteCount, destAtStart, storageCalls, localCollAtStart, syncVars, ctorArgs, auxVars, majorityWait, localIndexesAtStart,
                   anchorBehind>>

\* Mutant: $gte in place of $gt.
queryMatchesGte(anchor, d) == anchor = << >> \/ d >= anchor[1]

\* runQuery: the filter of the remote query. Without a resume anchor every document
\* matches; with one, {$expr: {$gt: ["$_id", _lastDocId["_id"]]}}.
queryMatches(anchor, d) == anchor = << >> \/ d > anchor[1]

\* TenantCollectionCloner::runQuery: the documents the remote cursor delivers,
\* in _id order (hint {_id: 1}).
runQuery(anchor, docs) == SortedSeq({ d \in docs : queryMatches(anchor, d) })

\* Mutant: the stage does not look at the emptiness flag.
queryStageIgnoresEmpty ==
    /\ pc = "stage"
    /\ getStages[stageIdx] = "query"
    /\ startedStages' = Append(startedStages, "query")
    /\ cursor' = SortedSeq(donorDocs)
    /\ queryLog' = Append(queryLog, cursor')
    /\ pc' = "query"
    /\ UNCHANGED <<behavior, thrown, stageErrors, copiedAtThrow>>
    /\ UNCHANGED <<envVars, stageIdx, status, runResult, clock,
                   stats, wasEmpty, operationTime, readyIndexSpecs, idIndexSpec, existingNss,
                   lastDocId, documentsToInsert, runnerVars,
                   stageResults, received, batchLog, insertCalls, scheduled,
                   failedInserts, indexBuildCalls, createCalls, preExisting, listedIndexes,
                   remoteCount, destAtStart, storageCalls, localCollAtStart, syncVars, ctorArgs, auxVars, majorityWait, localIndexesAtStart, anchorBehind>>

\* Mutant: the stage looks at the donor as it is now, not at the flag.
skipQueryRechecks(flag, docs) == docs = {}

\* queryStage: "if (_donorCollectionWasEmptyBeforeListIndexes) return kContinueNormally"
skipQuery(flag, docs) == flag

\* TenantCollectionCloner::queryStage up to the call of runQuery
queryStage ==
    /\ Begin("query")
    /\ IF skipQuery(wasEmpty, donorDocs)
       THEN /\ Returns("kContinueNormally")
            /\ UNCHANGED <<cursor, queryLog>>
       ELSE /\ cursor' = runQuery(lastDocId, donorDocs)
            /\ queryLog' = Append(queryLog, cursor')
            /\ pc' = "query"
            /\ UNCHANGED <<behavior, thrown, stageErrors, copiedAtThrow>>
    /\ UNCHANGED <<envVars, stageIdx, status, runResult, clock,
                   stats, wasEmpty, operationTime, readyIndexSpecs, idIndexSpec, existingNss,
                   lastDocId, documentsToInsert, runnerVars,
                   stageResults, received, batchLog, insertCalls, scheduled,
                   failedInserts, indexBuildCalls, createCalls, preExisting, listedIndexes, remoteCount, destAtStart, storageCalls, localCollAtStart, syncVars, ctorArgs, auxVars, majorityWait, localIndexesAtStart, anchorBehind>>

\* Mutant: the received batch is not counted.
countReceivedBatchMissing(st) == st

\* handleNextBatch, under _mutex: "_stats.receivedBatches++"
countReceivedBatch(st) == [st EXCEPT !.receivedBatches = @ + 1]

\* TenantCollectionCloner::handleNextBatch, the block under _mutex: count the batch and
\* move its documents to _documentsToInsert.
handleNextBatch ==
    /\ pc = "query"
    /\ cursor # << >>
    /\ \E n \in 1..Min(MaxBatch, Len(cursor)) :
         LET batch == Prefix(cursor, n) IN
            /\ stats' = countReceivedBatch(stats)
            /\ documentsToInsert' = documentsToInsert \o batch
            /\ cursor' = SubSeq(cursor, n + 1, Len(cursor))
            /\ received' = received \o batch
            /\ batchLog' = Append(batchLog, batch)
    /\ pc' = "schedule"
    /\ UNCHANGED <<envVars, stageIdx, behavior, thrown, status, runResult, clock,
                   wasEmpty, operationTime, readyIndexSpecs, idIndexSpec, existingNss,
                   lastDocId, runnerVars,
                   startedStages, stageResults, stageErrors, queryLog, insertCalls,
                   scheduled, failedInserts, indexBuildCalls, createCalls, preExisting,
                   listedIndexes, remoteCount, destAtStart, storageCalls, localCollAtStart, syncVars, ctorArgs, auxVars, majorityWait, localIndexesAtStart, anchorBehind, copiedAtThrow>>

\* handleNextBatch: the condition of the loop on the fail point
\* tenantMigrationHangCollectionClonerAfterHandlingBatchResponse.
hangAfterHandlingBatchWaits ==
    /\ "tenantMigrationHangCollectionClonerAfterHandlingBatchResponse" \in failPoints
    /\ ~mustExit

\* handleNextBatch / _scheduleDbWorkFn: schedule insertDocumentsCallback on the
\* task runner. The function always returns a callback handle. Then the loop on the
\* fail point is entered, or handleNextBatch returns to the query.
scheduleDbWork ==
    /\ pc = "schedule"
    /\ taskQueue' = taskQueue + 1
    /\ scheduled' = scheduled + 1
    /\ pc' = IF hangAfterHandlingBatchWaits THEN "hangAfterHandlingBatch" ELSE "query"
    /\ UNCHANGED <<envVars, stageIdx, behavior, thrown, status, runResult, clock,
                   clonerVars, worker,
                   startedStages, stageResults, stageErrors, queryLog, received, batchLog,
                   insertCalls, failedInserts, indexBuildCalls, createCalls, preExisting,
                   listedIndexes, remoteCount, destAtStart, storageCalls, localCollAtStart, syncVars, ctorArgs, auxVars, majorityWait, localIndexesAtStart, anchorBehind, copiedAtThrow>>

\* handleNextBatch, one turn of the loop on the fail point: sleepsecs(1).
hangAfterHandlingBatchSleeps ==
    /\ pc = "hangAfterHandlingBatch"
    /\ hangAfterHandlingBatchWaits
    /\ UNCHANGED vars

\* handleNextBatch leaves the loop on the fail point and returns to the query.
hangAfterHandlingBatchEnds ==
    /\ pc = "hangAfterHandlingBatch"
    /\ ~hangAfterHandlingBatchWaits
    /\ pc' = "query"
    /\ UNCHANGED <<envVars, stageIdx, behavior, thrown, status, runResult, clock,
                   clonerVars, runnerVars, histVars, syncVars, ctorArgs, auxVars>>

\* runQuery: the remote query raises (before, between or after batches).
runQueryThrows ==
    /\ pc = "query"
    /\ \E e \in RemoteErrors :
         /\ stats' = stats
         /\ Throws(e)
    /\ UNCHANGED <<envVars, stageIdx, status, runResult, clock,
                   wasEmpty, operationTime, readyIndexSpecs, idIndexSpec, existingNss,
                   lastDocId, documentsToInsert, cursor, runnerVars,
                   startedStages, stageResults, queryLog, received, batchLog, insertCalls,
                   scheduled, failedInserts, indexBuildCalls, createCalls, preExisting,
                   listedIndexes, remoteCount, destAtStart, storageCalls, localCollAtStart, syncVars, ctorArgs, auxVars, majorityWait, localIndexesAtStart, anchorBehind>>

\* runQuery returns: the cursor is exhausted.
runQueryReturns ==
    /\ pc = "query"
    /\ cursor = << >>
    /\ pc' = "join"
    /\ anchorBehind' = (/\ received # << >>
                        /\ \/ destDocs = << >>
                           \/ MaxOf(Range(destDocs)) < MaxOf(Range(received)))
    /\ UNCHANGED <<envVars, stageIdx, behavior, thrown, status, runResult, clock,
                   clonerVars, runnerVars,
                   startedStages, stageResults, stageErrors, queryLog, received, batchLog,
                   insertCalls, scheduled, failedInserts, indexBuildCalls, createCalls,
                   preExisting, listedIndexes, remoteCount, destAtStart, storageCalls,
                   localCollAtStart, syncVars, ctorArgs, auxVars, majorityWait, localIndexesAtStart, copiedAtThrow>>

\* Mutant: queryStage returns after runQuery without waiting for the insert tasks.
queryStageJoinNoWait ==
    /\ pc = "join"
    /\ Returns("kContinueNormally")
    /\ UNCHANGED <<envVars, stageIdx, status, runResult, clock,
                   clonerVars, runnerVars,
                   startedStages, stageResults, queryLog, received, batchLog, insertCalls,
                   scheduled, failedInserts, indexBuildCalls, createCalls, preExisting,
                   listedIndexes, remoteCount, destAtStart, storageCalls, localCollAtStart, syncVars, ctorArgs, auxVars, majorityWait, localIndexesAtStart, anchorBehind>>

\* queryStage after runQuery: waitForDatabaseWorkToComplete(); return kContinueNormally
queryStageJoin ==
    /\ pc = "join"
    /\ waitForDatabaseWorkToComplete
    /\ Returns("kContinueNormally")
    /\ UNCHANGED <<envVars, stageIdx, status, runResult, clock,
                   clonerVars, runnerVars,
                   startedStages, stageResults, queryLog, received, batchLog, insertCalls,
                   scheduled, failedInserts, indexBuildCalls, createCalls, preExisting,
                   listedIndexes, remoteCount, destAtStart, storageCalls, localCollAtStart, syncVars, ctorArgs, auxVars, majorityWait, localIndexesAtStart, anchorBehind>>

\* ----------------------------------------------------------- task runner
\* TaskRunner: tasks run one at a time, in the order they were scheduled. Nothing in
\* the cloner cancels the runner during a run, so every task is handed an OK status
\* (the uassertStatusOK(cbd.status) at the head of insertDocumentsCallback passes).
taskRunnerReady == taskQueue > 0 /\ worker = << >>

\* Mutant: the check for an empty buffer is missing, the empty vector is swapped,
\* counted and handed to the insert.
insertDocumentsCallbackNoEmptyCheck ==
    /\ taskQueue > 0 /\ worker = << >>
    /\ taskQueue' = taskQueue - 1
    /\ worker' = <<documentsToInsert>>
    /\ documentsToInsert' = << >>
    /\ stats' = [stats EXCEPT !.documentsCopied = @ + Len(documentsToInsert),
                              !.insertedBatches = @ + 1]
    /\ UNCHANGED <<envVars, driverVars,
                   wasEmpty, operationTime, readyIndexSpecs, idIndexSpec, existingNss,
                   lastDocId, cursor, histVars, syncVars, ctorArgs, auxVars>>

\* Mutant: the buffer is copied into docs, not swapped.
insertDocumentsCallbackCopy ==
    /\ taskQueue > 0 /\ worker = << >>
    /\ taskQueue' = taskQueue - 1
    /\ IF Len(documentsToInsert) = 0
       THEN UNCHANGED <<documentsToInsert, stats, worker>>
       ELSE /\ worker' = <<documentsToInsert>>
            /\ documentsToInsert' = documentsToInsert
            /\ stats' = [stats EXCEPT !.documentsCopied = @ + Len(documentsToInsert),
                                      !.insertedBatches = @ + 1]
    /\ UNCHANGED <<envVars, driverVars,
                   wasEmpty, operationTime, readyIndexSpecs, idIndexSpec, existingNss,
                   lastDocId, cursor, histVars, syncVars, ctorArgs, auxVars>>

\* insertDocumentsCallback, under _mutex right after the swap:
\* "_stats.documentsCopied += docs.size(); ++_stats.insertedBatches"
countSwappedBatch(st, n) ==
    [st EXCEPT !.documentsCopied = @ + n, !.insertedBatches = @ + 1]

\* insertDocumentsCallback, the block under _mutex: return when there is nothing to
\* insert, otherwise swap the buffer into docs and count the documents as copied.
insertDocumentsCallbackSwap ==
    /\ taskRunnerReady
    /\ taskQueue' = taskQueue - 1
    /\ IF Len(documentsToInsert) = 0
       THEN UNCHANGED <<documentsToInsert, stats, worker>>
       ELSE /\ worker' = <<documentsToInsert>>
            /\ documentsToInsert' = << >>
            /\ stats' = countSwappedBatch(stats, Len(documentsToInsert))
    /\ UNCHANGED <<envVars, driverVars,
                   wasEmpty, operationTime, readyIndexSpecs, idIndexSpec, existingNss,
                   lastDocId, cursor, histVars, syncVars, ctorArgs, auxVars>>

\* Mutant: the first write result is inspected, not the last.
firstWriteResult(n, docs) == IF n = 0 THEN "WriteFailed" ELSE "OK"

\* Mutant: the last write result is not looked at, the insert always counts as done.
lastWriteResultIgnored(n, docs) == "OK"

\* insertDocumentsCallback: writeResult.results.back() of an ordered insert that wrote
\* the first n documents of docs; the insert stops at the first error.
lastWriteResult(n, docs) == IF n < Len(docs) THEN "WriteFailed" ELSE "OK"

\* insertDocumentsCallback, performInserts of the ordered batch: the first n documents
\* are written; when n is less than the batch the last write result is an error, the
\* uassert raises and the task wrapper of _scheduleDbWorkFn sets the sync status.
insertDocumentsCallbackWrite ==
    /\ worker # << >>
    /\ LET docs == worker[1] IN
         /\ insertCalls' = Append(insertCalls, docs)
         /\ storageCalls' = Append(storageCalls,
                                   [op |-> "insert", nss |-> destinationNss(existingNss)])
         /\ \E n \in 0..Len(docs) :
              /\ destDocs' = destDocs \o Prefix(docs, n)
              /\ IF lastWriteResult(n, docs) # "OK"
                 THEN /\ status' = setSyncFailedStatus(lastWriteResult(n, docs))
                      /\ failedInserts' = failedInserts + 1
                 ELSE UNCHANGED <<status, failedInserts>>
    /\ worker' = << >>
    /\ UNCHANGED <<donorDocs, autoIndexId, isResuming, localColl, localNss, localIndexes,
                   failPoints,
                   pc, stageIdx, behavior, thrown, runResult, clock,
                   clonerVars, taskQueue,
                   startedStages, stageResults, stageErrors, queryLog, received, batchLog,
                   scheduled, indexBuildCalls, createCalls, preExisting, listedIndexes,
                   remoteCount, destAtStart, localCollAtStart, syncVars, ctorArgs, auxVars, majorityWait, localIndexesAtStart, anchorBehind, copiedAtThrow>>

\* TenantCollectionCloner::insertDocumentsCallback
insertDocumentsCallback == insertDocumentsCallbackSwap \/ insertDocumentsCallbackWrite

\* ----------------------------------------------------------- specification
Next ==
    \/ preStage
    \/ countStage
    \/ checkIfDonorCollectionIsEmptyStage
    \/ listIndexesStage
    \/ createCollectionStage
    \/ queryStage
    \/ handleNextBatch
    \/ scheduleDbWork
    \/ runQueryThrows
    \/ runQueryReturns
    \/ queryStageJoin
    \/ insertDocumentsCallback
    \/ TenantCollectionClonerStage_run
    \/ runStagesNext
    \/ runCatch
    \/ postStage
    \/ runReturns

Spec == Init /\ [][Next]_vars

\* ------------------------------------------- specification with fail points
\* A test turns a fail point off.
disableFailPoint ==
    /\ \E fp \in failPoints : failPoints' = failPoints \ {fp}
    /\ UNCHANGED <<donorDocs, autoIndexId, isResuming, localColl, localNss, localIndexes, destDocs,
                   driverVars, clonerVars, runnerVars, histVars, syncVars, ctorArgs, auxVars>>

\* The migration fails elsewhere or the node shuts down while the cloner runs: the
\* shared sync status is set, mustExit() is true from then on.
syncFailsElsewhere ==
    /\ status = "OK"
    /\ runResult = << >>
    /\ status' = setSyncFailedStatus("CallbackCanceled")
    /\ UNCHANGED <<envVars, pc, stageIdx, behavior, thrown, runResult, clock,
                   clonerVars, runnerVars, histVars, syncVars, ctorArgs, auxVars>>

\* BaseCloner::runStages: the abort is polled at the start of a stage, the
\* remaining stages are not run.
runStagesMustExit ==
    /\ pc = "stage"
    /\ mustExit
    /\ pc' = "post"
    /\ UNCHANGED <<envVars, stageIdx, behavior, thrown, status, runResult, clock,
                   clonerVars, runnerVars, histVars, syncVars, ctorArgs, auxVars>>

\* A new collection is cloned with any of the fail points enabled for it.
InitPause ==
    /\ donorDocs \in { {}, Keys }
    /\ autoIndexId = "DEFAULT"
    /\ localColl = "none"
    /\ localNss = "renamedNss"
    /\ isResuming = FALSE
    /\ localIndexes = {}
    /\ destDocs = << >>
    /\ failPoints \in SUBSET FailPointNames
    /\ InitCloner

NextPause ==
    \/ Next
    \/ hangAfterGettingOperationTimeSleeps
    \/ hangAfterGettingOperationTimeEnds
    \/ hangAfterCreateCollectionSleeps
    \/ hangAfterCreateCollectionEnds
    \/ hangAfterHandlingBatchSleeps
    \/ hangAfterHandlingBatchEnds
    \/ disableFailPoint
    \/ syncFailsElsewhere
    \/ runStagesMustExit

SpecPause == InitPause /\ [][NextPause]_vars

\* --------------------------------------------- specification of the constructor
\* The arguments a caller can hand to the constructor: whether sourceNss is valid,
\* whether it belongs to tenantId, whether collectionOptions carries a uuid.
CtorInputs == [nssValid : BOOLEAN, nssForTenant : BOOLEAN, hasUuid : BOOLEAN]

\* Mutant: the invariant on the uuid is missing.
constructorInvariantsNoUuid(args) == args.nssValid /\ args.nssForTenant

\* The constructor: invariant(sourceNss.isValid());
\* invariant(ClonerUtils::isNamespaceForTenant(sourceNss, tenantId));
\* invariant(collectionOptions.uuid)
constructorInvariants(args) == args.nssValid /\ args.nssForTenant /\ args.hasUuid

\* TenantCollectionCloner::TenantCollectionCloner, the body after the initializer
\* list: a failed invariant aborts the process, otherwise the cloner can be run.
TenantCollectionCloner_ctor ==
    /\ pc = "new"
    /\ pc' = IF constructorInvariants(ctorArgs) THEN "pre" ELSE "aborted"
    /\ UNCHANGED <<envVars, stageIdx, behavior, thrown, status, runResult, clock,
                   clonerVars, runnerVars, histVars, syncVars, ctorArgs, auxVars>>

\* The constructor is about to be called with any arguments, for a new collection.
InitConstruct ==
    /\ donorDocs \in { {}, Keys }
    /\ autoIndexId \in AutoIndexIdValues
    /\ localColl \in {"none", "nsConflict"}
    /\ localNss = "renamedNss"
    /\ isResuming = FALSE
    /\ localIndexes = {}
    /\ destDocs = << >>
    /\ failPoints = {}
    /\ ctorArgs \in CtorInputs
    /\ pc = "new"
    /\ OtherComponentsIdle
    /\ InitMembers

NextConstruct ==
    \/ TenantCollectionCloner_ctor
    \/ Next

SpecConstruct == InitConstruct /\ [][NextConstruct]_vars

\* ------------------------------------------------ specification of the mutex
\* The blocks under _mutex are entered and left in steps of their own: a context
\* constructs the lock_guard, runs the statements of the block, and leaves the scope.
\* blockEntry holds, for a context inside a block, the mark it entered with (the
\* position of the driver, the number of tasks started), so that "the statements of
\* the block have run" is "the mark is no longer current".

\* Mutant: the block is entered without a lock_guard.
lockGuardAbsent(ctx) == mutex' = mutex

\* "stdx::lock_guard<Latch> lk(_mutex)": blocks until the mutex is free, then holds it.
lockGuard(ctx) == mutex = "free" /\ mutex' = ctx

\* The end of the scope of a lock_guard: the holder releases the mutex.
unlockGuard(ctx) == mutex' = IF mutex = ctx THEN "free" ELSE mutex

\* The driver is at a block under _mutex: in preStage or postStage, in countStage or
\* listIndexesStage once the remote calls have answered, in createCollectionStage when
\* it resumes onto documents, or in handleNextBatch.
DriverBeforeBlock ==
    \/ pc \in {"pre", "post"}
    \/ /\ pc = "stage"
       /\ ~mustExit
       /\ \/ getStages[stageIdx] \in {"count", "listIndexes"}
          \/ /\ getStages[stageIdx] = "createCollection"
             /\ localColl = "sameUuid"
             /\ existingCollectionCheck(localColl, isResuming) = "OK"
             /\ findLastDocId(destDocs) # << >>
    \/ pc = "query" /\ cursor # << >>

\* The driver constructs the lock_guard of the block it is at.
driverEntersBlock ==
    /\ blockEntry["driver"] = << >>
    /\ DriverBeforeBlock
    /\ lockGuard("driver")
    /\ blockEntry' = [blockEntry EXCEPT !["driver"] = <<pc>>]
    /\ UNCHANGED <<envVars, driverVars, clonerVars, runnerVars, histVars, ctorArgs, auxVars>>

\* The driver runs a stage or hook whose block under _mutex it has entered.
driverInBlock ==
    /\ blockEntry["driver"] = <<pc>>
    /\ \/ preStage
       \/ postStage
       \/ countStage /\ remoteCount' # remoteCount
       \/ listIndexesStage /\ listedIndexes' # listedIndexes
       \/ createCollectionStage /\ lastDocId' # << >>
       \/ handleNextBatch

\* The driver leaves the scope of the lock_guard.
driverLeavesBlock ==
    /\ blockEntry["driver"] \notin { << >>, <<pc>> }
    /\ unlockGuard("driver")
    /\ blockEntry' = [blockEntry EXCEPT !["driver"] = << >>]
    /\ UNCHANGED <<envVars, driverVars, clonerVars, runnerVars, histVars, ctorArgs, auxVars>>

\* The driver runs code that has no block under _mutex: the stages and branches
\* that raise before their block or have none, and the stage loop.
driverOutsideBlock ==
    /\ blockEntry["driver"] = << >>
    /\ \/ countStage /\ remoteCount' = remoteCount
       \/ checkIfDonorCollectionIsEmptyStage
       \/ listIndexesStage /\ listedIndexes' = listedIndexes
       \/ createCollectionStage /\ lastDocId' = << >>
       \/ queryStage
       \/ scheduleDbWork
       \/ runQueryThrows
       \/ runQueryReturns
       \/ queryStageJoin
       \/ TenantCollectionClonerStage_run
       \/ runStagesNext
       \/ runCatch
       \/ runReturns

\* The number of insert tasks the task runner has started.
tasksStarted == scheduled - taskQueue

\* The task runner starts insertDocumentsCallback, which constructs its lock_guard.
workerEntersBlock ==
    /\ blockEntry["worker"] = << >>
    /\ taskRunnerReady
    /\ lockGuard("worker")
    /\ blockEntry' = [blockEntry EXCEPT !["worker"] = <<tasksStarted>>]
    /\ UNCHANGED <<envVars, driverVars, clonerVars, runnerVars, histVars, ctorArgs, auxVars>>

\* insertDocumentsCallback, the statements of the block under _mutex.
workerInBlock ==
    /\ blockEntry["worker"] = <<tasksStarted>>
    /\ insertDocumentsCallbackSwap

\* Mutant: the scope of the lock_guard reaches to the end of insertDocumentsCallback.
performInsertsUnderMutexYes == TRUE

\* insertDocumentsCallback: is performInserts called inside the block under _mutex?
\* The block is closed after the counters are updated, the call comes after it.
performInsertsUnderMutex == FALSE

\* insertDocumentsCallback leaves the scope of the lock_guard.
workerLeavesBlock ==
    /\ blockEntry["worker"] \notin { << >>, <<tasksStarted>> }
    /\ performInsertsUnderMutex => worker = << >>
    /\ unlockGuard("worker")
    /\ blockEntry' = [blockEntry EXCEPT !["worker"] = << >>]
    /\ UNCHANGED <<envVars, driverVars, clonerVars, runnerVars, histVars, ctorArgs, auxVars>>

\* insertDocumentsCallback, the blocking insert.
workerPerformInserts ==
    /\ (blockEntry["worker"] # << >>) = performInsertsUnderMutex
    /\ insertDocumentsCallbackWrite

\* TenantCollectionCloner::getStats: the lock_guard is constructed.
getStatsEntersBlock ==
    /\ blockEntry["getStats"] = << >>
    /\ runResult = << >>
    /\ lockGuard("getStats")
    /\ blockEntry' = [blockEntry EXCEPT !["getStats"] = <<"getStats">>]
    /\ UNCHANGED <<envVars, driverVars, clonerVars, runnerVars, histVars, ctorArgs, auxVars>>

\* TenantCollectionCloner::getStats: "return _stats" copies the counters and the
\* scope of the lock_guard ends.
getStats ==
    /\ blockEntry["getStats"] # << >>
    /\ unlockGuard("getStats")
    /\ blockEntry' = [blockEntry EXCEPT !["getStats"] = << >>]
    /\ UNCHANGED <<envVars, driverVars, clonerVars, runnerVars, histVars, ctorArgs, auxVars>>

\* A new collection is cloned, or a resumed one with or without documents.
InitMutex ==
    /\ donorDocs \in { {}, Keys }
    /\ autoIndexId = "DEFAULT"
    /\ localColl \in {"none", "sameUuid"}
    /\ localNss = "renamedNss"
    /\ isResuming = (localColl = "sameUuid")
    /\ localIndexes = {}
    /\ destDocs \in (IF localColl = "sameUuid" THEN { << >>, <<1>> } ELSE { << >> })
    /\ failPoints = {}
    /\ InitCloner

NextMutex ==
    \/ driverEntersBlock
    \/ driverInBlock
    \/ driverLeavesBlock
    \/ driverOutsideBlock
    \/ workerEntersBlock
    \/ workerInBlock
    \/ workerLeavesBlock
    \/ workerPerformInserts
    \/ getStatsEntersBlock
    \/ getStats

SpecMutex == InitMutex /\ [][NextMutex]_vars

\* ----------------------------------- specification of the local namespace
\* The uuid of the source is not known locally, or it is known under the namespace of
\* the source or under another one, with or without documents, and the run resumes.
InitNamespace ==
    /\ donorDocs \in { {}, Keys }
    /\ autoIndexId = "DEFAULT"
    /\ localColl \in {"none", "sameUuid"}
    /\ localNss \in (IF localColl = "sameUuid" THEN LocalNamespaces ELSE {"sourceNss"})
    /\ isResuming = (localColl = "sameUuid")
    /\ localIndexes = {}
    /\ destDocs \in (IF localColl = "sameUuid" THEN { << >>, <<1>> } ELSE { << >> })
    /\ failPoints = {}
    /\ InitCloner

SpecNamespace == InitNamespace /\ [][Next]_vars

\* ------------------------------------- specification with a donor that is written
\* The donor stays in service during the migration: a document is inserted into the
\* source collection while the cloner runs.
donorInserts ==
    /\ runResult = << >>
    /\ \E k \in Keys \ donorDocs : donorDocs' = donorDocs \cup {k}
    /\ UNCHANGED <<autoIndexId, isResuming, localColl, localNss, localIndexes, destDocs,
                   failPoints, driverVars, clonerVars, runnerVars, histVars, syncVars,
                   ctorArgs, auxVars>>

\* A new collection is cloned from a donor that is empty or holds one document.
InitDonorWrites ==
    /\ donorDocs \in { {}, {1} }
    /\ autoIndexId = "DEFAULT"
    /\ localColl = "none"
    /\ localNss = "sourceNss"
    /\ isResuming = FALSE
    /\ localIndexes = {}
    /\ destDocs = << >>
    /\ failPoints = {}
    /\ InitCloner

NextDonorWrites ==
    \/ Next
    \/ donorInserts

SpecDonorWrites == InitDonorWrites /\ [][NextDonorWrites]_vars

\* ------------------------------------------- scheduling that can fail
\* handleNextBatch tests the result of _scheduleDbWorkFn. The function member set by
\* the constructor always returns a callback handle; the specification below lets the
\* call return an error status as well, for a function member that reports the
\* executor's refusal to take the task.
ScheduleErrors == {"ShutdownInProgress", "CallbackCanceled"}

\* Mutant: the result of _scheduleDbWorkFn is not tested, handleNextBatch returns to the
\* query with no task scheduled.
scheduleDbWorkFailsIgnored ==
    /\ pc = "schedule"
    /\ pc' = "query"
    /\ UNCHANGED <<envVars, stageIdx, behavior, thrown, status, runResult, clock,
                   clonerVars, runnerVars, histVars, syncVars, ctorArgs, auxVars>>

\* handleNextBatch, "if (!scheduleResult.isOK())": no task was scheduled, the status
\* with its context is raised by uassertStatusOK out of the batch handler and so out
\* of the remote query.
scheduleDbWorkFails ==
    /\ pc = "schedule"
    /\ \E e \in ScheduleErrors :
         /\ stats' = stats
         /\ Throws(e)
    /\ UNCHANGED <<envVars, stageIdx, status, runResult, clock,
                   wasEmpty, operationTime, readyIndexSpecs, idIndexSpec, existingNss,
                   lastDocId, documentsToInsert, cursor, runnerVars,
                   startedStages, stageResults, queryLog, received, batchLog, insertCalls,
                   scheduled, failedInserts, indexBuildCalls, createCalls, preExisting,
                   listedIndexes, remoteCount, destAtStart, storageCalls, localCollAtStart,
                   syncVars, ctorArgs, auxVars, majorityWait, localIndexesAtStart, anchorBehind>>

\* A new collection is cloned from a donor that is empty or holds MaxKey documents.
InitScheduleFails ==
    /\ donorDocs \in { {}, Keys }
    /\ autoIndexId = "DEFAULT"
    /\ localColl = "none"
    /\ localNss = "sourceNss"
    /\ isResuming = FALSE
    /\ localIndexes = {}
    /\ destDocs = << >>
    /\ failPoints = {}
    /\ InitCloner

NextScheduleFails ==
    \/ Next
    \/ scheduleDbWorkFails

SpecScheduleFails == InitScheduleFails /\ [][NextScheduleFails]_vars

\* ------------------------------------------------------- the stats report
\* Points in time of a Stats value; 0 is Date_t(), a time that was never set.
MaxTime == 3

\* Largest value of a counter of a Stats value handed to the report.
MaxCount == 1

\* The Stats values a report is made of.
StatsValues ==
    [documentToCopy : 0..MaxCount, documentsCopied : 0..MaxCount, indexes : 0..MaxCount,
     insertedBatches : 0..MaxCount, receivedBatches : 0..MaxCount,
     start : 0..MaxTime, end : 0..MaxTime]

\* "end - start" of two Date_t, duration_cast to Milliseconds: Date_t counts
\* milliseconds, so the cast keeps the count.
elapsedMillis(st) == st.end - st.start

\* Mutant: the end time is appended whenever it is set, outside the test of the
\* start time.
Stats_appendEndAlone(st) ==
    << [name |-> "documentsToCopy", value |-> st.documentToCopy],
       [name |-> "documentsCopied", value |-> st.documentsCopied],
       [name |-> "indexes", value |-> st.indexes],
       [name |-> "insertedBatches", value |-> st.insertedBatches] >>
    \o (IF st.start # 0 THEN << [name |-> "start", value |-> st.start] >> ELSE << >>)
    \o (IF st.end # 0
        THEN << [name |-> "end", value |-> st.end],
                [name |-> "elapsedMillis", value |-> elapsedMillis(st)] >>
        ELSE << >>)
    \o << [name |-> "receivedBatches", value |-> st.receivedBatches] >>

\* TenantCollectionCloner::Stats::append: the fields appended to the builder, in order.
Stats_append(st) ==
    << [name |-> "documentsToCopy", value |-> st.documentToCopy],
       [name |-> "documentsCopied", value |-> st.documentsCopied],
       [name |-> "indexes", value |-> st.indexes],
       [name |-> "insertedBatches", value |-> st.insertedBatches] >>
    \o (IF st.start # 0
        THEN << [name |-> "start", value |-> st.start] >>
             \o (IF st.end # 0
                 THEN << [name |-> "end", value |-> st.end],
                         [name |-> "elapsedMillis", value |-> elapsedMillis(st)] >>
                 ELSE << >>)
        ELSE << >>)
    \o << [name |-> "receivedBatches", value |-> st.receivedBatches] >>

\* Stats::append is called on a Stats value with a new builder.
appendStats ==
    /\ report = << >>
    /\ report' = Stats_append(snapshot)
    /\ UNCHANGED <<envVars, driverVars, clonerVars, runnerVars, histVars, syncVars,
                   ctorArgs, snapshot, icdVars, rwVars>>

\* A cloner that was constructed and is never run.
ClonerNotRun ==
    /\ donorDocs = {}
    /\ autoIndexId = "DEFAULT"
    /\ localColl = "none"
    /\ localNss = "sourceNss"
    /\ isResuming = FALSE
    /\ localIndexes = {}
    /\ destDocs = << >>
    /\ failPoints = {}
    /\ pc = "pre"
    /\ ctorArgs = ValidCtorArgs
    /\ InitMembers

\* A Stats value to report; the cloner it was taken from plays no part.
InitStatsReport ==
    /\ ClonerNotRun
    /\ snapshot \in StatsValues
    /\ report = << >>
    /\ InsertConfigDocumentIdle
    /\ RetryableWriteIdle

NextStatsReport == appendStats

SpecStatsReport == InitStatsReport /\ [][NextStatsReport]_vars

\* --------------------- ShardingCatalogClientImpl::insertConfigDocument
\* src/mongo/s/catalog/sharding_catalog_client_impl.cpp
kMaxWriteRetry == 3

\* Contents a document with the _id of doc can have.
ConfigDocs == {"a", "b"}

\* What the config collection holds under that _id: nothing, or one document.
ConfigColls == { << >> } \cup { <<d>> : d \in ConfigDocs }

\* Error codes of a write whose outcome the caller cannot know (the command may
\* have been applied), and error codes of a write that was refused.
UnacknowledgedErrors == {"HostUnreachable", "WriteConcernFailed"}

RefusedErrors == {"Unauthorized"}

\* configShard->isRetriableError(code, Shard::RetryPolicy::kIdempotent): network and
\* write concern errors are retriable, OK, DuplicateKey and refusals are not.
isRetriableError(code, policy) ==
    policy = "kIdempotent" /\ code \in UnacknowledgedErrors

\* configShard->runBatchWriteCommand with RetryPolicy::kNoRetry: the outcomes of one
\* insert of d into a collection holding coll. The insert is applied only when no
\* document has the _id; its response can be lost although it was applied.
WriteOutcomes(coll, d) ==
    (IF coll = << >>
     THEN { [code |-> c, coll |-> <<d>>] : c \in {"OK"} \cup UnacknowledgedErrors }
     ELSE { [code |-> "DuplicateKey", coll |-> coll] })
    \cup { [code |-> c, coll |-> coll] : c \in {"HostUnreachable"} \cup RefusedErrors }

\* _exhaustiveFindOnConfig on the _id of doc: the documents found, or an error.
FetchResults(coll) ==
    { [status |-> StatusOf("OK"), existingDocs |-> coll] }
    \cup { [status |-> StatusOf(c), existingDocs |-> << >>] : c \in {"HostUnreachable"} }

\* Status::withContext: the code is kept, the reason gets a prefix.
withContext(st) == [st EXCEPT !.context = TRUE]

\* BSONObj::woCompare, as far as insertConfigDocument uses it: 0 for equal documents.
woCompare(x, y) == IF x = y THEN 0 ELSE 1

\* Mutant: the attempt number is not tested, every retriable error is retried.
retryAgainAnyAttempt(r, st) == isRetriableError(st.code, "kIdempotent")

\* "if (retry < kMaxWriteRetry && configShard->isRetriableError(status.code(), kIdempotent))"
retryAgain(r, st) == r < kMaxWriteRetry /\ isRetriableError(st.code, "kIdempotent")

\* Mutant: a different document found by the re-check is reported with the context
\* of the missing document.
duplicateKeyResultWithContext(f, st, d) ==
    IF f.status.code # "OK" THEN f.status
    ELSE IF f.existingDocs = << >> THEN withContext(st)
    ELSE IF woCompare(f.existingDocs[1], d) = 0 THEN StatusOf("OK")
    ELSE withContext(st)

\* insertConfigDocument, the block "if (retry > 1 && status == ErrorCodes::DuplicateKey)"
\* once the fetch has returned f, and the "return status" after it.
duplicateKeyResult(f, st, d) ==
    IF f.status.code # "OK" THEN f.status
    ELSE IF f.existingDocs = << >> THEN withContext(st)
    ELSE IF woCompare(f.existingDocs[1], d) = 0 THEN StatusOf("OK")
    ELSE st

\* insertConfigDocument, one turn of the loop up to the re-check: the write command,
\* then "continue", the start of the re-check, or "return status".
insertAttempt ==
    /\ icdPc = "attempt"
    /\ \E o \in WriteOutcomes(configColl, doc) :
         LET st == StatusOf(o.code) IN
            /\ configColl' = o.coll
            /\ insertStatus' = st
            /\ writeAttempts' = Append(writeAttempts, o.code)
            /\ IF retryAgain(retry, st)
               THEN /\ retry' = retry + 1
                    /\ icdPc' = IF retry + 1 <= kMaxWriteRetry THEN "attempt"
                                ELSE "unreachable"
                    /\ UNCHANGED icdResult
               ELSE IF retry > 1 /\ st.code = "DuplicateKey"
               THEN /\ icdPc' = "recheck"
                    /\ UNCHANGED <<retry, icdResult>>
               ELSE /\ icdPc' = "returned"
                    /\ icdResult' = <<st>>
                    /\ UNCHANGED retry
    /\ UNCHANGED <<envVars, driverVars, clonerVars, runnerVars, histVars, syncVars,
                   ctorArgs, reportVars, doc, fetchLog, rwVars>>

\* insertConfigDocument, the re-check after a DuplicateKey on a retry attempt: fetch by
\* _id and return.
recheckDuplicate ==
    /\ icdPc = "recheck"
    /\ \E f \in FetchResults(configColl) :
         /\ fetchLog' = Append(fetchLog, f)
         /\ icdResult' = <<duplicateKeyResult(f, insertStatus, doc)>>
    /\ icdPc' = "returned"
    /\ UNCHANGED <<envVars, driverVars, clonerVars, runnerVars, histVars, syncVars,
                   ctorArgs, reportVars, doc, retry, insertStatus, configColl,
                   writeAttempts, rwVars>>

\* Another writer of the config collection removes or replaces the document while
\* insertConfigDocument runs ("a concurrent change occurred together with the retries").
concurrentChange ==
    /\ icdPc \in {"attempt", "recheck"}
    /\ \E c \in ConfigColls \ {configColl} : configColl' = c
    /\ UNCHANGED <<envVars, driverVars, clonerVars, runnerVars, histVars, syncVars,
                   ctorArgs, reportVars, icdPc, doc, retry, insertStatus, icdResult,
                   writeAttempts, fetchLog, rwVars>>

\* insertConfigDocument is called with a document whose _id is free or taken.
InitInsertConfigDocument ==
    /\ ClonerNotRun
    /\ NoReport
    /\ RetryableWriteIdle
    /\ icdPc = "attempt"
    /\ doc \in ConfigDocs
    /\ retry = 1
    /\ insertStatus = StatusOf("OK")
    /\ icdResult = << >>
    /\ configColl \in ConfigColls
    /\ writeAttempts = << >>
    /\ fetchLog = << >>

NextInsertConfigDocument ==
    \/ insertAttempt
    \/ recheckDuplicate
    \/ concurrentChange

\* The caller's thread keeps running and every remote call returns (with a response
\* or with the error of its timeout), so a step of the function that can be taken
\* is taken; the other writers are under no such obligation.
SpecInsertConfigDocument ==
    /\ InitInsertConfigDocument
    /\ [][NextInsertConfigDocument]_vars
    /\ WF_vars(insertAttempt)
    /\ WF_vars(recheckDuplicate)

\* -------- ShardingCatalogClientImpl::insertConfigDocumentsAsRetryableWrite
\* The limits of a write batch, scaled down: write_ops::kMaxWriteBatchSize documents,
\* BSONObjMaxUserSize bytes, and the bytes a batch needs per document besides the
\* document (write_ops::kRetryableAndTxnBatchWriteBSONSizeOverhead).
kMaxWriteBatchSize == 2

BSONObjMaxUserSize == 4

kRetryableAndTxnBatchWriteBSONSizeOverhead == 1

\* Largest number of documents in the input vector.
MaxDocs == 3

\* BSONObj::objsize() of an input document: a user document has up to
\* BSONObjMaxUserSize bytes.
DocSizes == 1..BSONObjMaxUserSize

\* The input vectors: document i of the vector has the identity i and its size.
InputVectors ==
    UNION { { [i \in 1..n |-> [id |-> i, objsize |-> f[i]]] : f \in [1..n -> DocSizes] } :
            n \in 0..MaxDocs }

\* "if ((workingBatchItemSize + 1 > write_ops::kMaxWriteBatchSize) ||
\*      (workingBatchDocSize + docSizePlusOverhead > BSONObjMaxUserSize))"
batchIsFull(itemSize, docSize, docSizePlusOverhead) ==
    \/ itemSize + 1 > kMaxWriteBatchSize
    \/ docSize + docSizePlusOverhead > BSONObjMaxUserSize

\* sendRetryableWriteBatchRequestToConfig: the command is sent with the batch and the
\* transaction number; it returns, or raises the error of the response.
SendOutcomes == {"OK", "threw"}

\* insertConfigDocumentsAsRetryableWrite, one turn of "while (!docs.empty())": take the
\* last document of the vector, send the working batch first when the document does
\* not fit, then add the document to the working batch.
takeNextDocument ==
    /\ rwPc = "loop"
    /\ docsVector # << >>
    /\ LET toAdd == docsVector[Len(docsVector)]
           docSizePlusOverhead ==
               toAdd.objsize + kRetryableAndTxnBatchWriteBSONSizeOverhead
       IN /\ docsVector' = SubSeq(docsVector, 1, Len(docsVector) - 1)
          /\ IF batchIsFull(workingBatchItemSize, workingBatchDocSize, docSizePlusOverhead)
             THEN \E outcome \in SendOutcomes :
                    /\ sentBatches' = Append(sentBatches,
                                             [docs |-> workingBatch,
                                              txnNumber |-> currentTxnNumber,
                                              outcome |-> outcome])
                    /\ IF outcome = "OK"
                       THEN /\ currentTxnNumber' = currentTxnNumber + 1
                            /\ workingBatch' = <<toAdd>>
                            /\ workingBatchItemSize' = 1
                            /\ workingBatchDocSize' = docSizePlusOverhead
                            /\ UNCHANGED rwPc
                       ELSE /\ rwPc' = "threw"
                            /\ UNCHANGED <<currentTxnNumber, workingBatch,
                                           workingBatchItemSize, workingBatchDocSize>>
             ELSE /\ workingBatch' = Append(workingBatch, toAdd)
                  /\ workingBatchItemSize' = workingBatchItemSize + 1
                  /\ workingBatchDocSize' = workingBatchDocSize + docSizePlusOverhead
                  /\ UNCHANGED <<rwPc, currentTxnNumber, sentBatches>>
    /\ UNCHANGED <<envVars, driverVars, clonerVars, runnerVars, histVars, syncVars,
                   ctorArgs, reportVars, icdVars, rwInput>>

\* insertConfigDocumentsAsRetryableWrite after the loop: "if (!workingBatch.empty())"
\* send the working batch; return.
sendLastBatch ==
    /\ rwPc = "loop"
    /\ docsVector = << >>
    /\ IF workingBatch # << >>
       THEN \E outcome \in SendOutcomes :
              /\ sentBatches' = Append(sentBatches,
                                       [docs |-> workingBatch,
                                        txnNumber |-> currentTxnNumber,
                                        outcome |-> outcome])
              /\ rwPc' = IF outcome = "OK" THEN "returned" ELSE "threw"
       ELSE /\ rwPc' = "returned"
            /\ UNCHANGED sentBatches
    /\ UNCHANGED <<envVars, driverVars, clonerVars, runnerVars, histVars, syncVars,
                   ctorArgs, reportVars, icdVars, docsVector, workingBatch,
                   workingBatchItemSize, workingBatchDocSize, currentTxnNumber, rwInput>>

\* insertConfigDocumentsAsRetryableWrite is called with a vector of documents.
InitRetryableWrite ==
    /\ ClonerNotRun
    /\ NoReport
    /\ InsertConfigDocumentIdle
    /\ rwPc = "loop"
    /\ rwInput \in InputVectors
    /\ docsVector = rwInput
    /\ workingBatch = << >>
    /\ workingBatchItemSize = 0
    /\ workingBatchDocSize = 0
    /\ currentTxnNumber = 0
    /\ sentBatches = << >>

NextRetryableWrite ==
    \/ takeNextDocument
    \/ sendLastBatch

SpecRetryableWrite == InitRetryableWrite /\ [][NextRetryableWrite]_vars

\* Type-correctness of the model state.
TypeOK ==
    /\ donorDocs \subseteq Keys
    /\ localNss \in LocalNamespaces
    /\ failPoints \subseteq FailPointNames
    /\ mutex \in Contexts \cup {"free"}
    /\ DOMAIN blockEntry = Contexts
    /\ pc \in {"new", "aborted", "pre", "stage", "returned", "threw", "rethrown", "query", "schedule",
               "join", "post", "finish", "done", "hangAfterGettingOperationTime",
               "hangAfterCreateCollection", "hangAfterHandlingBatch"}
    /\ stageIdx \in 1..Len(getStages)
    /\ taskQueue \in Nat
    /\ Len(worker) <= 1
    /\ Len(runResult) <= 1


\* ================================================================ claims
\* The stage order the cloner is specified to follow.
ExpectedStages ==
    <<"count", "checkIfDonorCollectionIsEmpty", "listIndexes", "createCollection", "query">>

\* The driver is past the drain of the query stage (waitForDatabaseWorkToComplete
\* returned in queryStage or in a catch block of the stage wrapper).
QueryDrained ==
    /\ "query" \in Range(startedStages)
    /\ pc \in {"returned", "rethrown", "post", "finish", "done"}

\* No element occurs twice in the sequence.
NoDuplicates(seq) == \A i, j \in 1..Len(seq) : i # j => seq[i] # seq[j]

\* All five stages ran and each returned kContinueNormally.
AllStagesContinued ==
    /\ Len(stageResults) = Len(ExpectedStages)
    /\ \A i \in 1..Len(stageResults) : stageResults[i] = "kContinueNormally"

\* The source documents with a key above every pre-existing destination document.
SourceAbove(k) == { d \in donorDocs : d > k }

\* C1: the stages start in the order count, checkIfDonorCollectionIsEmpty, listIndexes,
\* createCollection, query; a stage starts only after the one before it returned
\* kContinueNormally; after a stage returned anything else or raised, no stage starts.
C1_StageOrder ==
    /\ Len(startedStages) <= Len(ExpectedStages)
    /\ \A i \in 1..Len(startedStages) : startedStages[i] = ExpectedStages[i]
    /\ Len(stageResults) <= Len(startedStages)
    /\ Len(startedStages) <= Len(stageResults) + 1
    /\ \A i \in 1..Len(stageResults) :
          /\ i < Len(startedStages) => stageResults[i] = "kContinueNormally"
          /\ stageResults[i] # "kContinueNormally" =>
                /\ Len(startedStages) = i
                /\ pc \in {"post", "finish", "done"}

\* C1 witness: a run in which all five stages were started and that has returned.
C1_Witness == pc = "done" /\ startedStages = ExpectedStages

\* C2: resumption. For every k and every source content, a run over a destination that
\* holds the documents 1..k and that completes without failure (all five stages ran to
\* kContinueNormally, the run returned OK) leaves the destination with exactly the
\* pre-existing documents and the source documents with key > k, none of them twice.
C2_Resumption ==
    (pc = "done" /\ runResult = <<"OK">> /\ AllStagesContinued) =>
        /\ Range(destDocs) = Range(destAtStart) \cup SourceAbove(Len(destAtStart))
        /\ NoDuplicates(destDocs)

\* C2 witness: a finished resume onto a non-empty destination that copied documents.
C2_Witness ==
    /\ pc = "done" /\ runResult = <<"OK">> /\ AllStagesContinued
    /\ Len(destAtStart) >= 1
    /\ Len(destDocs) > Len(destAtStart)

\* C3: the remote query of the query stage returns every source document when no
\* resume anchor was captured, and with an anchor exactly the source documents whose
\* key is greater than the anchor, the anchor document not among them.
C3_QueryRange ==
    /\ Len(queryLog) <= 1
    /\ queryLog # << >> =>
          /\ NoDuplicates(queryLog[1])
          /\ IF lastDocId = << >>
             THEN Range(queryLog[1]) = donorDocs
             ELSE /\ Range(queryLog[1]) = SourceAbove(lastDocId[1])
                  /\ lastDocId[1] \notin Range(queryLog[1])

\* C3 witness: a query issued with an anchor that is a key of the source.
C3_Witness ==
    /\ queryLog # << >>
    /\ lastDocId # << >>
    /\ lastDocId[1] \in donorDocs
    /\ queryLog[1] # << >>

\* C4: when no insert failed, after the drain the document vectors handed to the
\* ordered inserts are, concatenated, exactly the documents received from the cursor
\* in the order received, and the destination holds them in that order after the
\* documents it had before.
C4_NoLossNoDuplication ==
    (QueryDrained /\ failedInserts = 0) =>
        /\ Flatten(insertCalls) = received
        /\ destDocs = destAtStart \o received
        /\ documentsToInsert = << >>

\* C4 witness: a drained query stage with two batches received and two inserts done.
C4_Witness ==
    /\ QueryDrained /\ failedInserts = 0
    /\ Len(batchLog) >= 2
    /\ Len(insertCalls) >= 2

\* C5: when queryStage returns after a remote query, no insert task is queued or
\* running and the pending-document buffer is empty.
C5_QueryReturnsAfterDrain ==
    (pc = "returned" /\ startedStages = ExpectedStages /\ queryLog # << >>
        /\ behavior = "kContinueNormally") =>
        /\ taskQueue = 0
        /\ worker = << >>
        /\ documentsToInsert = << >>

\* C5 witness: queryStage returns after two insert tasks were scheduled.
C5_Witness ==
    /\ pc = "returned" /\ startedStages = ExpectedStages /\ queryLog # << >>
    /\ behavior = "kContinueNormally"
    /\ scheduled >= 2

\* The stage wrapper has handled a NamespaceNotFound raised by a stage.
SourceGoneHandled ==
    /\ stageErrors = <<"NamespaceNotFound">>
    /\ pc \in {"returned", "post", "finish", "done"}

StageFailed ==
    /\ Len(stageErrors) = 1
    /\ stageErrors[1] # "NamespaceNotFound"

\* C7: an error other than NamespaceNotFound leaves the stage wrapper only after the
\* drain (no insert task queued or running), it is the error the stage raised, and
\* the run does not end in success: it returns that error, or the write failure of an
\* insert task that failed before.
C7_ErrorAfterDrain ==
    /\ pc = "rethrown" =>
          /\ StageFailed
          /\ thrown = <<stageErrors[1]>>
          /\ taskQueue = 0 /\ worker = << >>
    /\ (StageFailed /\ pc \in {"post", "finish", "done"}) =>
          /\ taskQueue = 0 /\ worker = << >>
          /\ status # "OK"
          /\ failedInserts = 0 => status = stageErrors[1]
          /\ stageResults[Len(stageResults)] = "threw"
    /\ (StageFailed /\ pc = "done") => runResult = <<status>>

\* C7 witness: the query raises a network error after an insert task was scheduled,
\* and the error has left the stage wrapper.
C7_Witness ==
    /\ pc = "rethrown"
    /\ thrown = <<"HostUnreachable">>
    /\ scheduled >= 1

\* C8 as stated (read in its favour, for runs in which no stage raises): when the
\* emptiness check saw no document, no remote document query is issued, no insert task
\* is scheduled and the run ends successfully with documentsCopied = 0, whatever the
\* destination holds.
C8_Original ==
    wasEmpty =>
        /\ queryLog = << >>
        /\ scheduled = 0
        /\ (pc = "done" /\ stageErrors = << >>) =>
              /\ runResult = <<"OK">>
              /\ stats.documentsCopied = 0

\* C8 amended: when the emptiness check saw no document, no remote document query is
\* issued, no insert task is scheduled and nothing is inserted; documentsCopied is the
\* number of documents createCollection found in the destination (0 unless it resumed
\* onto a non-empty destination); the run ends successfully unless listIndexes or
\* createCollection fails.
C8_EmptyDonor ==
    wasEmpty =>
        /\ queryLog = << >>
        /\ scheduled = 0
        /\ insertCalls = << >>
        /\ destDocs = destAtStart
        /\ stats.documentsCopied = Len(preExisting)
        /\ (pc = "done" /\ stageErrors \in { << >>, <<"NamespaceNotFound">> }) =>
              runResult = <<"OK">>

\* C8 witness: an empty donor, a destination with documents of an earlier attempt, and
\* the run has ended successfully.
C8_Witness ==
    /\ wasEmpty
    /\ pc = "done" /\ runResult = <<"OK">>
    /\ AllStagesContinued
    /\ Len(preExisting) >= 1

\* C9: documentToCopy is never negative; a negative reply of the remote count is
\* stored as 0 and the count stage returns kContinueNormally.
C9_DocumentsToCopyNonNegative ==
    /\ stats.documentToCopy >= 0
    /\ remoteCount # << >> =>
          /\ stats.documentToCopy = (IF remoteCount[1] < 0 THEN 0 ELSE remoteCount[1])
          /\ stageErrors = << >> \/ Len(startedStages) >= 2
          /\ (pc = "returned" /\ Len(startedStages) = 1) => behavior = "kContinueNormally"
          /\ Len(stageResults) >= 1 => stageResults[1] = "kContinueNormally"

\* C9 witness: the remote count was negative and the next stage has started.
C9_Witness ==
    /\ remoteCount = <<-1>>
    /\ Len(startedStages) >= 2

\* The index list was read and majority-committed, it holds no "_id_" index.
ListedWithoutIdIndex ==
    /\ listedIndexes # << >>
    /\ "_id_" \notin Range(listedIndexes[1])

\* C10: listIndexes raises IllegalOperation exactly when the index list read from the
\* remote (and majority-committed) holds no "_id_" index and autoIndexId is not NO;
\* then the run fails with it, createCollection never starts and nothing is created,
\* built or copied. With no "_id_" index and autoIndexId NO the stage returns
\* kContinueNormally and no "_id_" index is built.
C10_IdIndexCheck ==
    /\ ("IllegalOperation" \in Range(stageErrors))
          <=> (ListedWithoutIdIndex /\ autoIndexId # "NO")
    /\ ("IllegalOperation" \in Range(stageErrors)) =>
          /\ startedStages = Prefix(ExpectedStages, 3)
          /\ createCalls = 0
          /\ indexBuildCalls = << >>
          /\ queryLog = << >>
          /\ insertCalls = << >>
          /\ destDocs = destAtStart
          /\ stats.documentsCopied = 0
          /\ pc = "done" => runResult = <<"IllegalOperation">>
    /\ (ListedWithoutIdIndex /\ autoIndexId = "NO") =>
          /\ stageErrors = << >> \/ Len(startedStages) >= 4
          /\ Len(stageResults) >= 3 => stageResults[3] = "kContinueNormally"
          /\ idIndexSpec = << >>
          /\ \A i \in 1..Len(indexBuildCalls) : "_id_" \notin Range(indexBuildCalls[i])
          /\ "_id_" \notin localIndexes

\* C10 witness: the run has failed with IllegalOperation.
C10_Witness ==
    /\ pc = "done"
    /\ runResult = <<"IllegalOperation">>
    /\ ListedWithoutIdIndex

\* createCollectionStage is the stage that ran last and the driver has not yet
\* looked at its outcome.
CreateCollectionJustRan ==
    /\ startedStages # << >>
    /\ startedStages[Len(startedStages)] = "createCollection"
    /\ pc \in {"returned", "threw"}

\* createCollectionStage found a collection with the source's uuid under the same
\* tenant and database, holding at least one document.
FoundNonEmptyDestination ==
    /\ "createCollection" \in Range(startedStages)
    /\ localColl = "sameUuid"
    /\ destAtStart # << >>

\* C11 as stated: whenever createCollectionStage finds a non-empty local collection
\* with the source's uuid, same tenant and same database, the stage completes
\* without error, the resume anchor is the largest _id of the destination and
\* documentsCopied is the destination's document count.
C11_Original ==
    (FoundNonEmptyDestination /\ CreateCollectionJustRan) =>
        /\ pc = "returned"
        /\ behavior = "kContinueNormally"
        /\ lastDocId = <<MaxOf(Range(destAtStart))>>
        /\ stats.documentsCopied = Len(destAtStart)

\* C11 amended: the same holds when, in addition, the migration is resuming
\* (getSharedData()->isResuming()); the anchor then stays for the rest of the run
\* and documentsCopied never falls below the count found.  Without the resuming
\* flag the stage raises NamespaceExists and sets neither.
C11_ResumeExisting ==
    /\ (FoundNonEmptyDestination /\ isResuming) =>
            /\ lastDocId = <<MaxOf(Range(destAtStart))>>
            /\ stats.documentsCopied >= Len(destAtStart)
            /\ CreateCollectionJustRan =>
                    /\ pc = "returned"
                    /\ behavior = "kContinueNormally"
                    /\ stats.documentsCopied = Len(destAtStart)
    /\ (FoundNonEmptyDestination /\ ~isResuming) =>
            /\ lastDocId = << >>
            /\ stats.documentsCopied = 0
            /\ stageErrors = <<"NamespaceExists">>

\* C11 witness: a resuming run found two or more documents and the stage returned.
C11_Witness ==
    /\ FoundNonEmptyDestination
    /\ isResuming
    /\ CreateCollectionJustRan
    /\ pc = "returned"
    /\ Len(destAtStart) >= 2
    /\ stats.documentsCopied = Len(destAtStart)

\* C12: when the resume finds documents in the destination, no call to
\* createIndexesOnEmptyCollection is made in the run, the planned index list
\* (_readyIndexSpecs) is emptied and the local indexes stay as they were.
C12_ResumeBuildsNoIndex ==
    preExisting # << >> =>
        /\ indexBuildCalls = << >>
        /\ createCalls = 0
        /\ readyIndexSpecs = << >>
        /\ localIndexes = localIndexesAtStart

\* C12 witness: a resumed run over existing documents ended, the remote having
\* listed indexes other than "_id_".
C12_Witness ==
    /\ preExisting # << >>
    /\ pc = "done"
    /\ listedIndexes # << >>
    /\ Range(listedIndexes[1]) \ {"_id_"} # {}
    /\ indexBuildCalls = << >>

\* The index specs the remote listed that are not the "_id_" index and whose name
\* did not exist locally before the run, in the order listed.
IndexesToBuild ==
    SelectNames(listedIndexes[1],
                (Range(listedIndexes[1]) \ {"_id_"}) \ localIndexesAtStart)

\* C13: when the destination holds no documents (created by this run, or found
\* existing and empty), createCollectionStage asks local storage, in one call, to
\* build exactly the listed non-"_id_" indexes whose name does not exist locally;
\* indexes that exist only locally are left in place.
C13_IndexesBuilt ==
    /\ Len(indexBuildCalls) <= 1
    /\ indexBuildCalls # << >> =>
            /\ destAtStart = << >>
            /\ listedIndexes # << >>
            /\ indexBuildCalls[1] = IndexesToBuild
            /\ localIndexesAtStart \subseteq localIndexes
            /\ localIndexes \subseteq localIndexesAtStart \cup Range(IndexesToBuild) \cup {"_id_"}
    /\ (/\ Len(stageResults) >= 4
        /\ stageResults[4] = "kContinueNormally"
        /\ destAtStart = << >>) => Len(indexBuildCalls) = 1

\* C13 witness: the remote listed "b", "_id_", "a", the empty local collection had
\* "a" and "c"; only "b" was asked for and "c" is still there.
C13_Witness ==
    /\ localIndexesAtStart = {"a", "c"}
    /\ listedIndexes = << <<"b", "_id_", "a">> >>
    /\ indexBuildCalls = << <<"b">> >>
    /\ localIndexes = {"a", "b", "c"}

C15_FifoPrefix ==
    /\ \A i, j \in 1..Len(destDocs) : i < j => destDocs[i] < destDocs[j]
    /\ destDocs # << >> =>
            \A d \in Range(received) :
                d < MaxOf(Range(destDocs)) => d \in Range(destDocs)

\* The largest _id of the destination, 0 when it is empty (every _id is positive).
DestinationAnchor == IF destDocs = << >> THEN 0 ELSE MaxOf(Range(destDocs))

SucceededInserts ==
    { i \in 1..Len(insertCalls) : Range(insertCalls[i]) \subseteq Range(destDocs) }

RECURSIVE SumLen(_, _)
\* The total length of the sequences ss[i], i in the set I.
SumLen(ss, I) ==
    IF I = {} THEN 0
    ELSE LET i == CHOOSE x \in I : TRUE
         IN Len(ss[i]) + SumLen(ss, I \ {i})

\* C17: documentsCopied and insertedBatches count only the batches whose
\* insert succeeded (besides the documents counted by a resume): with no insert in
\* flight they equal the documents and the number of the succeeded insert calls.
C17_Original ==
    worker = << >> =>
        /\ stats.documentsCopied = Len(preExisting) + SumLen(insertCalls, SucceededInserts)
        /\ stats.insertedBatches = Cardinality(SucceededInserts)

\* An ordered insert ended with an error: some document handed to performInserts
\* is not in the destination.
SomeInsertFailed ==
    \E i \in 1..Len(insertCalls) : ~(Range(insertCalls[i]) \subseteq Range(destDocs))

\* C18: when the last write result of an ordered insert is an error the batch is
\* failed: the sync status is an error from then on and the run does not return
\* OK, also when earlier documents of the batch were written.
C18_FailedInsertFailsRun ==
    SomeInsertFailed =>
        /\ status # "OK"
        /\ failedInserts > 0
        /\ pc = "done" => runResult # <<"OK">>

\* C18 witness: a batch of two was inserted, its first document was written, its
\* second was not, and the run returned WriteFailed.
C18_Witness ==
    /\ pc = "done"
    /\ runResult = <<"WriteFailed">>
    /\ \E i \in 1..Len(insertCalls) :
            /\ Len(insertCalls[i]) = 2
            /\ insertCalls[i][1] \in Range(destDocs)
            /\ insertCalls[i][2] \notin Range(destDocs)

\* C19: the start time is set by preStage before the first stage starts, the end
\* time by postStage after the last stage that ran, in every run: also when a stage
\* failed or asked to skip the remaining stages.  Times are clock readings, 0 is
\* "not set".
C19_StartAndEndTimes ==
    /\ (stats.start = 0) <=> (pc = "pre")
    /\ startedStages # << >> => stats.start # 0
    /\ (stats.end # 0) <=> (pc \in {"finish", "done"})
    /\ stats.end # 0 =>
            /\ stats.start < stats.end
            /\ Len(stageResults) = Len(startedStages)
            /\ worker = << >> /\ taskQueue = 0
    /\ pc = "done" => stats.end # 0

\* C19 witness: a run in which a stage raised has ended with both times set.
C19_Witness ==
    /\ pc = "done"
    /\ stageResults # << >>
    /\ stageResults[Len(stageResults)] = "threw"
    /\ stats.start # 0
    /\ stats.start < stats.end

\* The driver waits at one of the three pause points.
AtPausePoint ==
    pc \in {"hangAfterGettingOperationTime", "hangAfterCreateCollection",
            "hangAfterHandlingBatch"}

\* C20 as stated: once mustExit() is true, each of the three pause points stops
\* waiting, also while its fail point stays enabled: the step that leaves the pause
\* point can be taken.
C20_Original ==
    (AtPausePoint /\ mustExit) =>
        /\ pc = "hangAfterGettingOperationTime" => ENABLED hangAfterGettingOperationTimeEnds
        /\ pc = "hangAfterCreateCollection" => ENABLED hangAfterCreateCollectionEnds
        /\ pc = "hangAfterHandlingBatch" => ENABLED hangAfterHandlingBatchEnds

\* C20 amended: once mustExit() is true, the pause points after getting the
\* operation time and after handling a batch stop waiting, also while their fail
\* points stay enabled.  The pause point after createCollection does not look at
\* mustExit: it is left exactly when its fail point is disabled.
C20_PausePoints ==
    /\ (pc = "hangAfterGettingOperationTime" /\ mustExit) =>
            ENABLED hangAfterGettingOperationTimeEnds
    /\ (pc = "hangAfterHandlingBatch" /\ mustExit) =>
            ENABLED hangAfterHandlingBatchEnds
    /\ pc = "hangAfterCreateCollection" =>
            ((ENABLED hangAfterCreateCollectionEnds) <=>
                "tenantCollectionClonerHangAfterCreateCollection" \notin failPoints)

\* C20 witness: the cloner waits after getting the operation time, its fail point
\* is enabled, mustExit() is true and the stage can go on.
C20_Witness ==
    /\ pc = "hangAfterGettingOperationTime"
    /\ "tenantCollectionClonerHangAfterGettingOperationTime" \in failPoints
    /\ mustExit
    /\ ENABLED hangAfterGettingOperationTimeEnds

\* The local collection with the uuid of the source belongs to another tenant or to
\* another database.
ForeignCollection == localColl \in {"otherTenant", "otherDb"}

\* C21: when the local collection with the uuid of the source belongs to another tenant
\* or to another database, createCollection raises (5342500 for the tenant, 5342501
\* for the database, resuming or not), the run does not return success, and in that
\* run no collection is created, no index is built, no insert task is scheduled and no
\* document is inserted.
C21_ForeignCollectionFails ==
    ForeignCollection =>
        /\ createCalls = 0
        /\ indexBuildCalls = << >>
        /\ existingNss = << >>
        /\ localIndexes = localIndexesAtStart
        /\ "query" \notin Range(startedStages)
        /\ scheduled = 0
        /\ insertCalls = << >>
        /\ destDocs = destAtStart
        /\ ("createCollection" \in Range(startedStages) /\ pc # "stage") =>
              /\ stageErrors = <<IF localColl = "otherTenant"
                                 THEN "Location5342500" ELSE "Location5342501">>
              /\ pc # "returned"
              /\ pc \in {"post", "finish", "done"} => status = stageErrors[1]
              /\ pc = "done" => runResult = <<stageErrors[1]>>

\* C21 witness: a resuming run that found the uuid in another database has returned
\* the error of createCollection.
C21_Witness ==
    /\ localColl = "otherDb"
    /\ isResuming
    /\ "createCollection" \in Range(startedStages)
    /\ pc = "done"
    /\ runResult = <<"Location5342501">>

\* createCollectionStage has run its body.
CreateCollectionRan == "createCollection" \in Range(startedStages)

\* C22: when no local collection has the uuid of the source, createCollection calls
\* createCollection once, on the source namespace and with the declared options,
\* before any other write to local storage; when the namespace is free the collection
\* exists afterwards with the '_id' index the options ask for. When the namespace is
\* taken by a collection with another uuid the stage raises NamespaceExists, the run
\* returns that error, and no index is built, no insert task is scheduled and no
\* document is inserted in that run.
C22_CreateOnSourceNss ==
    localCollAtStart \in {"none", "nsConflict"} =>
        /\ existingNss = << >>
        /\ createCalls = (IF CreateCollectionRan THEN 1 ELSE 0)
        /\ localColl = (IF CreateCollectionRan /\ localCollAtStart = "none"
                        THEN "created" ELSE localCollAtStart)
        /\ CreateCollectionRan =>
              storageCalls[1] = [op |-> "createCollection", nss |-> "sourceNss",
                                 options |-> autoIndexId]
        /\ localColl = "created" => ("_id_" \in localIndexes <=> autoIndexId # "NO")
        /\ localCollAtStart = "nsConflict" =>
              /\ indexBuildCalls = << >>
              /\ localIndexes = localIndexesAtStart
              /\ "query" \notin Range(startedStages)
              /\ scheduled = 0
              /\ insertCalls = << >>
              /\ destDocs = destAtStart
              /\ Len(storageCalls) <= 1
              /\ CreateCollectionRan =>
                    /\ stageErrors = <<"NamespaceExists">>
                    /\ pc \in {"post", "finish", "done"} => status = "NamespaceExists"
                    /\ pc = "done" => runResult = <<"NamespaceExists">>

\* C22 witness: the namespace was taken by another uuid, the creation was attempted
\* and the run has returned NamespaceExists.
C22_Witness ==
    /\ localCollAtStart = "nsConflict"
    /\ createCalls = 1
    /\ pc = "done"
    /\ runResult = <<"NamespaceExists">>

\* The majority wait of listIndexesStage has ended with a status that is not OK.
MajorityWaitNotOK == majorityWait # << >> /\ majorityWait[1] # "OK"

\* Nothing was written to local storage and neither createCollection nor query started.
NothingDoneLocally ==
    /\ "createCollection" \notin Range(startedStages)
    /\ "query" \notin Range(startedStages)
    /\ readyIndexSpecs = << >> /\ idIndexSpec = << >> /\ listedIndexes = << >>
    /\ storageCalls = << >>
    /\ createCalls = 0 /\ indexBuildCalls = << >>
    /\ scheduled = 0 /\ insertCalls = << >>
    /\ localColl = localCollAtStart
    /\ localIndexes = localIndexesAtStart
    /\ destDocs = destAtStart

\* C23 as stated: after a majority wait that is not OK the listIndexes stage has
\* failed, the run does not return success, and createCollection and query never run:
\* nothing is created or inserted locally.
C23_Original ==
    MajorityWaitNotOK =>
        /\ NothingDoneLocally
        /\ pc \in {"post", "finish", "done"} =>
              /\ stageResults[Len(stageResults)] = "threw"
              /\ status # "OK"
        /\ pc = "done" => runResult # <<"OK">>

\* C23 amended: after a majority wait that is not OK, listIndexesStage raises that
\* status, createCollection and query never run and nothing is created or inserted
\* locally. The run returns that status, except for NamespaceNotFound: the stage
\* wrapper takes it for a dropped source, the stage returns kSkipRemainingStages and
\* the run returns OK.
C23_MajorityWaitFails ==
    MajorityWaitNotOK =>
        /\ NothingDoneLocally
        /\ startedStages = <<"count", "checkIfDonorCollectionIsEmpty", "listIndexes">>
        /\ stageErrors = majorityWait
        /\ pc \in {"post", "finish", "done"} =>
              IF majorityWait[1] = "NamespaceNotFound"
              THEN /\ stageResults[Len(stageResults)] = "kSkipRemainingStages"
                   /\ status = "OK"
              ELSE /\ stageResults[Len(stageResults)] = "threw"
                   /\ status = majorityWait[1]
        /\ pc = "done" => runResult = <<status>>

\* C23 witness: the majority wait failed and the run has returned its status.
C23_Witness ==
    /\ majorityWait = <<"MajorityWaitFailed">>
    /\ pc = "done"
    /\ runResult = <<"MajorityWaitFailed">>

\* C27: a cloner that runs stages exists only for constructor arguments that pass the
\* three invariants: a valid source namespace, of the tenant, and options with a uuid.
\* For any other arguments the constructor ends in a failed invariant and nothing of
\* the cloner ever runs: no stage starts, the start time is never set, nothing is
\* written locally.
C27_ConstructionInvariants ==
    /\ pc \notin {"new", "aborted"} => ctorArgs = ValidCtorArgs
    /\ ctorArgs # ValidCtorArgs =>
          /\ pc \in {"new", "aborted"}
          /\ startedStages = << >>
          /\ stats.start = 0
          /\ storageCalls = << >>
          /\ runResult = << >>
    /\ pc = "aborted" => ctorArgs # ValidCtorArgs

\* C27 witness: the constructor was called with options that carry no uuid, for a
\* valid namespace of the tenant, and has failed its invariant.
C27_Witness ==
    /\ pc = "aborted"
    /\ ctorArgs = [nssValid |-> TRUE, nssForTenant |-> TRUE, hasUuid |-> FALSE]

\* The contexts that are inside a block under _mutex.
InBlock == { c \in Contexts : blockEntry[c] # << >> }

\* C24: every context inside a block under _mutex holds the mutex, so no two contexts
\* (driver, insert task, getStats) are inside such a block at the same instant; and
\* every step that changes the pending-document buffer or a counter of _stats is taken
\* by the context that holds the mutex, inside its block.
C24_MutexGuardsSharedState ==
    [][ /\ \A c \in Contexts : blockEntry'[c] # << >> => mutex' = c
        /\ (stats' # stats \/ documentsToInsert' # documentsToInsert) =>
              /\ mutex # "free"
              /\ mutex' = mutex
              /\ blockEntry[mutex] # << >> ]_vars

\* C24 witness: an insert task is inside its block while the driver, with a batch to
\* handle, and getStats wait for the mutex.
C24_Witness ==
    /\ InBlock = {"worker"}
    /\ mutex = "worker"
    /\ pc = "query" /\ cursor # << >>
    /\ documentsToInsert # << >>
    /\ stats.insertedBatches >= 1

\* The insert task is at the call of performInserts.
InsertInFlight == worker # << >> /\ ENABLED workerPerformInserts

\* C25: while an insert task is at its blocking insert it does not hold the mutex and
\* is outside of its block; when no other context holds the mutex then, getStats can
\* take it, and so can the driver when it has a batch to handle.
C25_InsertOutsideMutex ==
    worker # << >> =>
        /\ InsertInFlight <=> blockEntry["worker"] = << >>
        /\ InsertInFlight =>
              /\ mutex # "worker"
              /\ (mutex = "free" /\ blockEntry["getStats"] = << >> /\ runResult = << >>)
                    => ENABLED getStatsEntersBlock
              /\ (mutex = "free" /\ pc = "query" /\ cursor # << >>)
                    => ENABLED driverEntersBlock

\* C25 witness: the driver is inside the block of handleNextBatch, holding the mutex,
\* while an insert is in flight.
C25_Witness ==
    /\ InsertInFlight
    /\ mutex = "driver"
    /\ blockEntry["driver"] = <<"query">>
    /\ stats.receivedBatches >= 2

\* C26: a step in which an insert task starts and finds the pending-document buffer
\* empty changes nothing but the task queue: no insert is started or performed, the
\* counters (documentsCopied and insertedBatches among them), the buffer, the
\* destination and the sync status stay as they are.
C26_EmptyBufferNoOp ==
    [][ (taskQueue' = taskQueue - 1 /\ documentsToInsert = << >>) =>
            /\ worker' = worker
            /\ insertCalls' = insertCalls
            /\ stats' = stats
            /\ documentsToInsert' = documentsToInsert
            /\ destDocs' = destDocs
            /\ status' = status
            /\ failedInserts' = failedInserts ]_vars

\* C26 witness: a run in which an insert task found the buffer empty (more tasks were
\* started than batches were swapped) has drained all its tasks and returned success.
C26_Witness ==
    /\ pc = "done"
    /\ runResult = <<"OK">>
    /\ taskQueue = 0
    /\ scheduled > stats.insertedBatches
    /\ destDocs = destAtStart \o received

\* The positions of a list of index specs whose name is not "_id_".
NonIdPositions(specs) == { i \in 1..Len(specs) : specs[i] # "_id_" }

\* C28: once listIndexes has processed the specs the remote returned, _idIndexSpec is
\* the "_id_" spec when one was returned and empty otherwise, and the indexes counter
\* is the number of returned specs not named "_id_" plus 1 when an "_id_" spec was
\* returned. Until createCollection starts, _readyIndexSpecs holds exactly the returned
\* specs not named "_id_", each once and in the order returned.
C28_ReadyIndexes ==
    listedIndexes # << >> =>
        LET specs == listedIndexes[1] IN
        /\ Len(listedIndexes) = 1
        /\ idIndexSpec = (IF "_id_" \in Range(specs) THEN <<"_id_">> ELSE << >>)
        /\ stats.indexes = Cardinality(NonIdPositions(specs))
                             + (IF "_id_" \in Range(specs) THEN 1 ELSE 0)
        /\ "createCollection" \notin Range(startedStages) =>
              /\ Len(readyIndexSpecs) = Cardinality(NonIdPositions(specs))
              /\ Range(readyIndexSpecs) = Range(specs) \ {"_id_"}
              /\ stats.indexes = Len(readyIndexSpecs) + Len(idIndexSpec)
              /\ \A i, j \in 1..Len(readyIndexSpecs) :
                    i < j => \E k, l \in NonIdPositions(specs) :
                                /\ k < l
                                /\ specs[k] = readyIndexSpecs[i]
                                /\ specs[l] = readyIndexSpecs[j]

\* C28 witness: the remote returned the "_id_" spec between two others, and the stage
\* has returned with the two others in the order returned.
C28_Witness ==
    /\ listedIndexes = << <<"b", "_id_", "a">> >>
    /\ pc = "returned"
    /\ Len(startedStages) = 3
    /\ readyIndexSpecs = <<"b", "a">>
    /\ stats.indexes = 3

\* The calls to local storage that build indexes or insert documents.
DestinationCalls ==
    { i \in 1..Len(storageCalls) : storageCalls[i].op \in {"createIndexes", "insert"} }

\* C30: every index build and every insert of a run targets one namespace: the one
\* recorded in _existingNss when createCollection found the uuid locally, the source
\* namespace otherwise. _existingNss is recorded exactly by a resuming createCollection
\* that found the uuid, before its index build, and holds the namespace of that
\* collection; when that is not the namespace of the source, nothing is created,
\* built or inserted under the namespace of the source.
C30_OneDestination ==
    /\ \A i \in DestinationCalls :
          storageCalls[i].nss = (IF existingNss = << >> THEN "sourceNss" ELSE existingNss[1])
    /\ \A i, j \in DestinationCalls : storageCalls[i].nss = storageCalls[j].nss
    /\ existingNss # << >> <=>
          (CreateCollectionRan /\ localCollAtStart = "sameUuid" /\ isResuming)
    /\ existingNss # << >> => existingNss = <<localNss>>
    /\ (existingNss # << >> /\ localNss # "sourceNss") =>
          \A i \in 1..Len(storageCalls) : storageCalls[i].nss # "sourceNss"
    /\ Cardinality(DestinationCalls) = Len(indexBuildCalls) + Len(insertCalls)

\* C30 witness: a resumed run found the collection under a namespace that is not the
\* one of the source, built indexes on it and inserted two batches into it.
C30_Witness ==
    /\ existingNss = <<"renamedNss">>
    /\ Len(indexBuildCalls) = 1
    /\ Len(insertCalls) >= 2
    /\ \A i \in 1..Len(storageCalls) : storageCalls[i].nss = "renamedNss"

\* C29: _donorCollectionWasEmptyBeforeListIndexes changes only in a step of the
\* emptiness-check stage, which sets it to whether the donor holds no document then;
\* no other stage, no insert task and no write to the donor changes it. Once the query
\* stage has started, a remote document query was issued exactly when the flag is
\* false, whatever the donor holds by then.
C29_EmptinessLatched ==
    [][ /\ wasEmpty' # wasEmpty =>
              /\ startedStages' = Append(startedStages, "checkIfDonorCollectionIsEmpty")
              /\ wasEmpty' = (donorDocs = {})
        /\ startedStages' = Append(startedStages, "checkIfDonorCollectionIsEmpty") =>
              (stageErrors' = stageErrors => wasEmpty' = (donorDocs = {}))
        /\ "listIndexes" \in Range(startedStages) => wasEmpty' = wasEmpty
        /\ "query" \in Range(startedStages') =>
              /\ (queryLog' = << >>) = wasEmpty'
              /\ wasEmpty' => (scheduled' = 0 /\ destDocs' = destAtStart') ]_vars

\* C29 witness: the donor was empty at the check and gained documents before the query
\* stage; the run has ended in success without a document query.
C29_Witness ==
    /\ wasEmpty
    /\ donorDocs # {}
    /\ startedStages = ExpectedStages
    /\ pc = "done" /\ runResult = <<"OK">>
    /\ queryLog = << >>
    /\ destDocs = << >>

\* The documents counted as copied by this run, and the documents this run has written
\* to the destination.
CopiedByRun == stats.documentsCopied - Len(preExisting)

WrittenByRun == Len(destDocs) - Len(destAtStart)

\* The number of documents of the largest batch received so far.
LargestReceivedBatch ==
    IF batchLog = << >> THEN 0
    ELSE MaxOf({ Len(batchLog[i]) : i \in 1..Len(batchLog) })

\* The number of documents an insert task has taken from the buffer and not yet
\* handed back from performInserts.
InFlightDocs == IF worker = << >> THEN 0 ELSE Len(worker[1])

\* C31 as stated: without insert failures, documentsCopied exceeds the documents
\* written by at most the documents of one received batch.
C31_Original ==
    failedInserts = 0 => CopiedByRun - WrittenByRun <= LargestReceivedBatch

\* C31: in every reachable state of a run without insert failures, the
\* documents-copied value read through getStats exceeds the documents written to the
\* destination by at most the documents of the one insert in flight; that insert
\* holds whatever the buffer held when its task ran, which can be the documents of
\* several received batches.
C31_CopiedAheadByInFlight ==
    failedInserts = 0 => CopiedByRun - WrittenByRun <= InFlightDocs

\* An insert is in flight with the documents of two received batches, counted as
\* copied and not yet written.
C31_Witness ==
    /\ failedInserts = 0
    /\ worker # << >>
    /\ Len(worker[1]) > LargestReceivedBatch
    /\ CopiedByRun - WrittenByRun = Len(worker[1])

\* A call of _scheduleDbWorkFn returned an error status in this run.
ScheduleFailed == \E i \in 1..Len(stageErrors) : stageErrors[i] \in ScheduleErrors

\* C32: every call of handleNextBatch raises receivedBatches by exactly one and
\* moves all documents of the current cursor batch to the end of the pending buffer;
\* it then schedules exactly one insert task, or, when scheduling fails, schedules
\* none and raises an error, after which the remote query delivers no further batch.
C32_HandleNextBatch ==
    [][ /\ (stats'.receivedBatches # stats.receivedBatches \/ cursor' # cursor
              \/ batchLog' # batchLog) /\ queryLog' = queryLog =>
              /\ stats'.receivedBatches = stats.receivedBatches + 1
              /\ Len(batchLog') = Len(batchLog) + 1
              /\ LET batch == batchLog'[Len(batchLog')] IN
                    /\ batch # << >>
                    /\ cursor = batch \o cursor'
                    /\ documentsToInsert' = documentsToInsert \o batch
              /\ scheduled' = scheduled
              /\ pc' = "schedule"
        /\ pc = "schedule" =>
              \/ pc' = "schedule"
              \/ /\ pc' \in {"query", "hangAfterHandlingBatch"}
                 /\ scheduled' = scheduled + 1
                 /\ taskQueue' = taskQueue + 1
              \/ /\ pc' = "threw"
                 /\ thrown' \in { <<e>> : e \in ScheduleErrors }
                 /\ scheduled' = scheduled
                 /\ taskQueue' = taskQueue
        /\ scheduled' # scheduled => pc = "schedule"
        /\ ScheduleFailed =>
              /\ stats'.receivedBatches = stats.receivedBatches
              /\ scheduled' = scheduled
              /\ cursor' = cursor
              /\ pc' # "query" ]_vars

\* C32 witness: the first batch was scheduled, scheduling the second one failed; the
\* run has ended with the error of the scheduler and the first batch is written.
C32_Witness ==
    /\ ScheduleFailed
    /\ stats.receivedBatches = 2
    /\ scheduled = 1
    /\ cursor # << >>
    /\ destDocs = batchLog[1]
    /\ pc = "done"
    /\ runResult \in { <<e>> : e \in ScheduleErrors }

\* The insert tasks that have run and found the buffer empty.
EmptyBufferTasks == (scheduled - taskQueue) - stats.insertedBatches

\* C33: insertedBatches never exceeds receivedBatches and documentsCopied never
\* decreases; once the tasks are drained the two batch counters differ by exactly the
\* number of insert tasks that found the buffer empty.
C33_BatchCounters ==
    [][ /\ stats.insertedBatches <= stats.receivedBatches
        /\ stats'.insertedBatches <= stats'.receivedBatches
        /\ stats'.documentsCopied >= stats.documentsCopied
        /\ (taskQueue' = 0 /\ worker' = << >> /\ pc' # "schedule") =>
              /\ stats'.receivedBatches - stats'.insertedBatches = EmptyBufferTasks'
              /\ Len(insertCalls') = stats'.insertedBatches ]_vars

\* C33 witness: the query stage is drained and has returned; one insert task took
\* the documents of two received batches, the task of the second batch found the
\* buffer empty, so fewer batches were inserted than received.
C33_Witness ==
    /\ QueryDrained
    /\ stats.receivedBatches = 2
    /\ stats.insertedBatches = 1
    /\ EmptyBufferTasks = 1
    /\ insertCalls = <<batchLog[1] \o batchLog[2]>>
    /\ stats.documentsCopied = Len(batchLog[1]) + Len(batchLog[2])

\* A received document is missing from the destination although the destination holds
\* a document with a larger _id.
GapBelowAnchor ==
    \E d \in Range(received) :
        /\ d \notin Range(destDocs)
        /\ \E e \in Range(destDocs) : e > d

\* C34: after an insert task has failed no later insert task of the run writes a
\* document to the destination, and so when a failed run has ended the destination
\* holds no document with a larger _id than a received document that is missing.
C34_NoInsertAfterFailure ==
    [][ /\ failedInserts > 0 => destDocs' = destDocs
        /\ (pc' = "done" /\ failedInserts' > 0) => ~GapBelowAnchor' ]_vars

\* The names of the fields of the report.
ReportNames == { report[i].name : i \in 1..Len(report) }


\* C35: the report holds 'start' only if the start time was set; it holds 'end' and
\* 'elapsedMillis' only if both times were set, and then elapsedMillis is end minus
\* start; the five counters are always in the report, with the values of the Stats.
C35_StatsReport ==
    report # << >> =>
        /\ "start" \in ReportNames <=> snapshot.start # 0
        /\ "end" \in ReportNames <=> (snapshot.start # 0 /\ snapshot.end # 0)
        /\ "elapsedMillis" \in ReportNames <=> "end" \in ReportNames
        /\ \A i \in 1..Len(report) :
              /\ report[i].name = "start" => report[i].value = snapshot.start
              /\ report[i].name = "end" => report[i].value = snapshot.end
              /\ report[i].name = "elapsedMillis" =>
                    report[i].value = snapshot.end - snapshot.start
              /\ report[i].name = "documentsToCopy" =>
                    report[i].value = snapshot.documentToCopy
              /\ report[i].name = "documentsCopied" =>
                    report[i].value = snapshot.documentsCopied
              /\ report[i].name = "indexes" => report[i].value = snapshot.indexes
              /\ report[i].name = "insertedBatches" =>
                    report[i].value = snapshot.insertedBatches
              /\ report[i].name = "receivedBatches" =>
                    report[i].value = snapshot.receivedBatches
        /\ {"documentsToCopy", "documentsCopied", "indexes", "insertedBatches",
            "receivedBatches"} \subseteq ReportNames
        /\ \A i, j \in 1..Len(report) : report[i].name = report[j].name => i = j

\* C35 witness: a report of a Stats value whose end time is set and whose start
\* time is not: it holds the five counters and none of the times.
C35_Witness ==
    /\ report # << >>
    /\ snapshot.start = 0
    /\ snapshot.end # 0
    /\ Len(report) = 5

\* The write attempts after which a further attempt was made.
RetriedAttempts ==
    IF icdPc = "attempt" THEN 1..Len(writeAttempts) ELSE 1..(Len(writeAttempts) - 1)

\* C36: insertConfigDocument returns after at most kMaxWriteRetry write attempts: an
\* attempt is followed by another one only when its number is below kMaxWriteRetry
\* and its error is retriable under the idempotent policy, every other outcome leaves
\* the loop through a return, and the MONGO_UNREACHABLE after the loop is not reached.
C36_BoundedRetries ==
    /\ [](/\ Len(writeAttempts) <= kMaxWriteRetry
          /\ icdPc # "unreachable"
          /\ retry <= kMaxWriteRetry
          /\ \A i \in RetriedAttempts :
                /\ i < kMaxWriteRetry
                /\ isRetriableError(writeAttempts[i], "kIdempotent")
          /\ icdPc \in {"recheck", "returned"} =>
                LET n == Len(writeAttempts) IN
                   /\ n = retry
                   /\ n = kMaxWriteRetry
                         \/ ~isRetriableError(writeAttempts[n], "kIdempotent")
          /\ (icdPc = "returned") = (icdResult # << >>))
    /\ <>(icdPc = "returned")

\* C36 witness: the calls returned after kMaxWriteRetry attempts that all ended in
\* a retriable error, with the error of the last one.
C36_Witness ==
    /\ icdPc = "returned"
    /\ Len(writeAttempts) = kMaxWriteRetry
    /\ \A i \in 1..kMaxWriteRetry : isRetriableError(writeAttempts[i], "kIdempotent")
    /\ icdResult = <<StatusOf(writeAttempts[kMaxWriteRetry])>>

\* insertConfigDocument returned and its last write attempt ended in DuplicateKey.
ReturnedAfterDuplicateKey ==
    /\ icdPc = "returned"
    /\ writeAttempts[Len(writeAttempts)] = "DuplicateKey"

\* What insertConfigDocument returns after a DuplicateKey, up to the context of the
\* error returned when the re-check finds a different document.
DuplicateKeyOutcome(differentDocContext) ==
    ReturnedAfterDuplicateKey =>
        IF Len(writeAttempts) = 1
        THEN /\ icdResult = <<StatusOf("DuplicateKey")>>
             /\ fetchLog = << >>
        ELSE /\ Len(fetchLog) = 1
             /\ LET f == fetchLog[1] IN
                   /\ f.status.code # "OK" => icdResult = <<f.status>>
                   /\ (f.status.code = "OK" /\ f.existingDocs = << >>) =>
                         icdResult = <<withContext(StatusOf("DuplicateKey"))>>
                   /\ (f.status.code = "OK" /\ f.existingDocs = <<doc>>) =>
                         icdResult = <<StatusOf("OK")>>
                   /\ (f.status.code = "OK" /\ f.existingDocs \notin {<< >>, <<doc>>}) =>
                         icdResult = <<[code |-> "DuplicateKey",
                                        context |-> differentDocContext]>>
                   /\ (icdResult = <<StatusOf("OK")>>) <=>
                         (f.status.code = "OK" /\ f.existingDocs = <<doc>>)

\* C37 as stated: the DuplicateKey error returned after the re-check carries the added
\* context both when no document and when a different document was found.
C37_Original == DuplicateKeyOutcome(TRUE)

\* C37: a DuplicateKey on the first attempt is returned as it is, with no re-check;
\* a DuplicateKey on a retry attempt is re-checked by a fetch, and the call returns
\* the fetch error if the fetch failed, OK if and only if the document found equals
\* the document being inserted, the DuplicateKey error with the added context if no
\* document was found, and the DuplicateKey error as the write returned it, without
\* added context, if a different document was found.
C37_DuplicateKeyRecheck == DuplicateKeyOutcome(FALSE)

\* C37 witness: the first write was applied and its response lost, the retry ended
\* in DuplicateKey, the re-check found the document itself and the call returned OK.
C37_Witness ==
    /\ ReturnedAfterDuplicateKey
    /\ Len(writeAttempts) = 2
    /\ fetchLog = << [status |-> StatusOf("OK"), existingDocs |-> <<doc>>] >>
    /\ icdResult = <<StatusOf("OK")>>

RECURSIVE BatchBytes(_)
\* The bytes of a batch: the size of every document plus the overhead per document.
BatchBytes(batch) ==
    IF batch = << >> THEN 0
    ELSE Head(batch).objsize + kRetryableAndTxnBatchWriteBSONSizeOverhead
         + BatchBytes(Tail(batch))

\* The batches that hold the document with identity i.
BatchesOf(i) ==
    { b \in 1..Len(sentBatches) :
         \E k \in 1..Len(sentBatches[b].docs) : sentBatches[b].docs[k].id = i }

\* C38: every batch sent is non-empty, holds at most kMaxWriteBatchSize documents and
\* at most BSONObjMaxUserSize bytes with the overhead per document, and carries the
\* transaction number 0, 1, 2, ... of its position; once the call has returned with
\* no send failed, every input document was sent in exactly one batch.
C38_RetryableWriteBatches ==
    /\ \A b \in 1..Len(sentBatches) :
          /\ sentBatches[b].docs # << >>
          /\ Len(sentBatches[b].docs) <= kMaxWriteBatchSize
          /\ BatchBytes(sentBatches[b].docs) <= BSONObjMaxUserSize
          /\ sentBatches[b].txnNumber = b - 1
    /\ rwPc = "returned" =>
          \A i \in 1..Len(rwInput) : Cardinality(BatchesOf(i)) = 1

====
